---------------------------- MODULE Spec2Model ----------------------------
(***************************************************************************)
(* Model of anima-server's orchestration and storage engine:               *)
(*   - the Neo4j social graph written by SocialGraphRepository,            *)
(*   - the agent sub-graph anima_app (think -> execute_action),            *)
(*   - the world tick world_app (world_graph.py),                          *)
(*   - AgentScheduler.run_tick (agent_scheduler.py),                       *)
(*   - the event workflow run_event_workflow over the in-memory post pool  *)
(*     of action_executor.py.                                              *)
(*   - SocialGraphRepository.like_post under repeated calls.               *)
(* Agent uuids are the integers 1..MaxAgents (their numeric order is the   *)
(* order sorted() / ORDER BY gives the uuid strings); uuid4() values are   *)
(* drawn from a counter; timestamps are whole seconds of the wall clock    *)
(* (isoformat(timespec="seconds")).                                        *)
(***************************************************************************)
EXTENDS Integers, Sequences, FiniteSets, TLC

\* ---------------------------------------------------------------- bounds
MaxAgents == 3
MaxClock == 2
MaxLikeCalls == 3
MaxTargets == 3

Agents == 1..MaxAgents
\* The session the modelled tick / event runs in.
SessionId == "s1"

\* Python's None for an optional string argument.
None == "<None>"
\* A target_post_id argument that is None or blank.
NoneId == 0

VARIABLES
    graph,              \* the Neo4j property graph
    clock,              \* wall clock, whole seconds
    checkpoint,         \* MemorySaver: thread (agent) -> messages of anima_app
    history,            \* log of a tick: the world tick's reads and commits,
                        \* run_tick's commits, in the order they happened
    registry,           \* agent_registry._AGENT_IDS_BY_SESSION[SessionId]
    wpc,                \* world_app: position of the tick
    pending_agents,     \* WorldState.pending_agents
    completed_agents,   \* WorldState.completed_agents
    agent_uuid,         \* run_next_agent_node: the popped agent (0: none)
    recent_memory,      \* run_next_agent_node: the perception just read
    roster,             \* the roster the tick started from
    spc,                \* run_tick: position of the scheduler
    agent_uuids,        \* run_tick: the roster read from the graph
    apc,                \* run_tick: position of each _run_single_agent task
    memory_text,        \* _run_single_agent: the perception read
    results,            \* run_tick: gather's result slots, one per roster index
    response,           \* run_tick: the EventTickResponse returned
    posts_by_session,   \* action_executor._POSTS_BY_SESSION
    heap,               \* the list objects PostItem.likes / .comments refer to
    epc,                \* run_event_workflow: position
    target_thread_ids,  \* EventWorkflowState.target_thread_ids
    social_posts,       \* EventWorkflowState.social_posts (the snapshot)
    ipc,                \* position of each Send("infer_action") task
    sent_posts,         \* the social_posts each infer_action task received
    inferred_actions,   \* EventWorkflowState.inferred_actions
    apply_idx,          \* _apply_actions_node: loop index
    event_posts,        \* EventWorkflowState.posts / the returned list
    elog,               \* log of the event workflow's steps, in order
    calls,              \* repository driver: calls made so far
    like_returns,       \* repository driver: what like_post returned, per pair
    last_call,          \* the caller's last call of a store operation: its
                        \* arguments and what it returned or raised
    posts_lock,         \* action_executor._POSTS_LOCK: held or not
    callers             \* the threads inside apply_action: position, arguments
                        \* and the posts each has read

graphVars == <<graph, clock, checkpoint, history>>
worldVars == <<registry, wpc, pending_agents, completed_agents, agent_uuid,
               recent_memory, roster>>
schedVars == <<spc, agent_uuids, apc, memory_text, results, response>>
eventVars == <<posts_by_session, heap, epc, target_thread_ids, social_posts, ipc,
               sent_posts, inferred_actions, apply_idx, event_posts, elog>>
repoVars == <<calls, like_returns, last_call, posts_lock, callers>>
vars == <<graphVars, worldVars, schedVars, eventVars, repoVars>>

\* ------------------------------------------------------------- helpers
Rank(i, S) == Cardinality({x \in S : x <= i})

RECURSIVE SetToSortedSeq(_)
SetToSortedSeq(S) ==
    IF S = {} THEN <<>>
    ELSE LET m == CHOOSE x \in S : \A y \in S : x <= y
         IN <<m>> \o SetToSortedSeq(S \ {m})

Range(s) == {s[i] : i \in DOMAIN s}

\* ------------------------------------------------- the Neo4j social graph
EmptyGraph ==
    [entities |-> <<>>, posts |-> <<>>, posted |-> {}, replied |-> {},
     liked |-> {}, next_uuid |-> 1,
     events |-> <<>>, initiated |-> {}, targeted |-> {}]

\* Nodes matched by (x:Entity {session_id: .., entity_id: ..}).
EntityRows(g, session_id, entity_id) ==
    {i \in DOMAIN g.entities :
        /\ g.entities[i].session_id = session_id
        /\ g.entities[i].entity_id = entity_id}

\* Nodes matched by (p:SocialPost {session_id: .., post_id: ..}).
PostRows(g, session_id, post_id) ==
    {i \in DOMAIN g.posts :
        /\ g.posts[i].session_id = session_id
        /\ g.posts[i].post_id = post_id}

\* MERGE (actor:Entity {session_id: $session_id, entity_id: $agent_uuid})
MergeActor(g, session_id, entity_id) ==
    IF EntityRows(g, session_id, entity_id) # {} THEN g
    ELSE [g EXCEPT !.entities = Append(@,
            [session_id |-> session_id, entity_id |-> entity_id,
             label |-> "", name |-> None])]

\* SocialGraphRepository.create_post: one transaction.
create_post(g, session_id, agent, content, now) ==
    LET post_id == g.next_uuid
        g1 == MergeActor(g, session_id, agent)
        actors == EntityRows(g1, session_id, agent)
        base == Len(g1.posts)
        node == [post_id |-> post_id, session_id |-> session_id,
                 type |-> "ORIGINAL", content |-> content, timestamp |-> now]
        created == [j \in 1..Cardinality(actors) |-> node]
    IN [g |-> [g1 EXCEPT
                 !.posts = @ \o created,
                 !.posted = @ \cup {<<a, base + Rank(a, actors)>> : a \in actors},
                 !.next_uuid = @ + 1],
        raised |-> FALSE,
        value |-> post_id]

\* Mutant of create_comment: the author is merged before the parent is
\* matched, in a transaction of its own.
CreateCommentMergingFirst(g, session_id, agent, target_post_id, content, now) ==
    LET post_id == g.next_uuid
        parents == PostRows(g, session_id, target_post_id)
        g1 == MergeActor(g, session_id, agent)
        actors == EntityRows(g1, session_id, agent)
        na == Cardinality(actors)
        base == Len(g1.posts)
        node == [post_id |-> post_id, session_id |-> session_id,
                 type |-> "COMMENT", content |-> content, timestamp |-> now]
        At(p, a) == base + (Rank(p, parents) - 1) * na + Rank(a, actors)
        created == [j \in 1..(Cardinality(parents) * na) |-> node]
    IN IF parents = {}
       THEN [g |-> g1, raised |-> TRUE, value |-> 0]
       ELSE [g |-> [g1 EXCEPT
                      !.posts = @ \o created,
                      !.posted = @ \cup
                          {<<a, At(p, a)>> : p \in parents, a \in actors},
                      !.replied = @ \cup
                          {<<At(p, a), p>> : p \in parents, a \in actors},
                      !.next_uuid = @ + 1],
             raised |-> FALSE,
             value |-> post_id]

\* create_comment matching the parent by post_id alone, in any session.
CreateCommentOnAnySession(g, session_id, agent, target_post_id, content, now) ==
    LET post_id == g.next_uuid
        parents == {i \in DOMAIN g.posts : g.posts[i].post_id = target_post_id}
        g1 == MergeActor(g, session_id, agent)
        actors == EntityRows(g1, session_id, agent)
        na == Cardinality(actors)
        base == Len(g1.posts)
        node == [post_id |-> post_id, session_id |-> session_id,
                 type |-> "COMMENT", content |-> content, timestamp |-> now]
        At(p, a) == base + (Rank(p, parents) - 1) * na + Rank(a, actors)
        created == [j \in 1..(Cardinality(parents) * na) |-> node]
    IN IF parents = {}
       THEN [g |-> g, raised |-> TRUE, value |-> 0]
       ELSE [g |-> [g1 EXCEPT
                      !.posts = @ \o created,
                      !.posted = @ \cup
                          {<<a, At(p, a)>> : p \in parents, a \in actors},
                      !.replied = @ \cup
                          {<<At(p, a), p>> : p \in parents, a \in actors},
                      !.next_uuid = @ + 1],
             raised |-> FALSE,
             value |-> post_id]

\* SocialGraphRepository.create_comment: one transaction; no parent row
\* leaves the graph as it was and raises ValueError.
create_comment(g, session_id, agent, target_post_id, content, now) ==
    LET post_id == g.next_uuid
        parents == PostRows(g, session_id, target_post_id)
        g1 == MergeActor(g, session_id, agent)
        actors == EntityRows(g1, session_id, agent)
        na == Cardinality(actors)
        base == Len(g1.posts)
        node == [post_id |-> post_id, session_id |-> session_id,
                 type |-> "COMMENT", content |-> content, timestamp |-> now]
        At(p, a) == base + (Rank(p, parents) - 1) * na + Rank(a, actors)
        created == [j \in 1..(Cardinality(parents) * na) |-> node]
    IN IF parents = {}
       THEN [g |-> g, raised |-> TRUE, value |-> 0]
       ELSE [g |-> [g1 EXCEPT
                      !.posts = @ \o created,
                      !.posted = @ \cup
                          {<<a, At(p, a)>> : p \in parents, a \in actors},
                      !.replied = @ \cup
                          {<<At(p, a), p>> : p \in parents, a \in actors},
                      !.next_uuid = @ + 1],
             raised |-> FALSE,
             value |-> post_id]

\* ---------------------------------------------- neo4j_event_store
\* _format_entity_display_name: name#uuid-prefix, the entity id standing in
\* for a name that is None or blank (the ids of this model are shorter than
\* five characters, so the prefix is the id).
_format_entity_display_name(name, entity_id) ==
    <<IF name \in {None, "", " "} THEN entity_id ELSE name, "#", entity_id>>

\* Nodes matched by (x:Entity:`label` {session_id: .., entity_id: ..}): the
\* node must carry the sub-label too.
LabelledEntityRows(g, label, session_id, entity_id) ==
    {i \in EntityRows(g, session_id, entity_id) : g.entities[i].label = label}

\* MERGE (x:Entity:`label` {...}) SET x.name = .., x.entity_type = ..
\* (the entity_type property always equals the sub-label).
MergeLabelled(g, label, session_id, entity_id, name) ==
    LET rows == LabelledEntityRows(g, label, session_id, entity_id)
    IN IF rows = {}
       THEN [g EXCEPT !.entities = Append(@,
                [session_id |-> session_id, entity_id |-> entity_id,
                 label |-> label, name |-> name])]
       ELSE [g EXCEPT !.entities =
                [i \in DOMAIN @ |-> IF i \in rows
                                    THEN [@[i] EXCEPT !.name = name]
                                    ELSE @[i]]]

\* An EventRequest without object.
NoObject == [none |-> TRUE]

\* ingest_event_to_neo4j: one write transaction. The subject is merged, one
\* Event node is created per subject row with its INITIATED edge, and with an
\* object the object is merged and gets the TARGETED edge of every event.
ingest_event_to_neo4j(g, event) ==
    LET event_id == g.next_uuid
        sid == event.session_id
        sub == event.subject
        g1 == MergeLabelled(g, sub.entity_type, sid, sub.entity_id,
                            _format_entity_display_name(sub.name, sub.entity_id))
        subs == LabelledEntityRows(g1, sub.entity_type, sid, sub.entity_id)
        base == Len(g1.events)
        node == [event_id |-> event_id, session_id |-> sid,
                 timestamp |-> event.timestamp, world_time |-> event.world_time,
                 verb |-> event.verb, details |-> event.details]
        g2 == [g1 EXCEPT
                 !.events = @ \o [j \in 1..Cardinality(subs) |-> node],
                 !.initiated = @ \cup {<<a, base + Rank(a, subs)>> : a \in subs},
                 !.next_uuid = @ + 1]
        evts == {base + Rank(a, subs) : a \in subs}
        obj == event.object
        g3 == MergeLabelled(g2, obj.entity_type, sid, obj.entity_id,
                            _format_entity_display_name(obj.name, obj.entity_id))
        objs == LabelledEntityRows(g3, obj.entity_type, sid, obj.entity_id)
    IN IF event.object = NoObject
       THEN [g |-> g2, raised |-> FALSE, value |-> event_id]
       ELSE [g |-> [g3 EXCEPT !.targeted = @ \cup (evts \X objs)],
             raised |-> FALSE, value |-> event_id]

\* The LIKED edge between two nodes, if any.
LikedEdges(g, a, p) == {e \in g.liked : e.actor = a /\ e.post = p}

\* The row .single() hands back: the first of the result rows.
FirstRow(rows) ==
    CHOOSE r \in rows : \A q \in rows :
        r[1] < q[1] \/ (r[1] = q[1] /\ r[2] <= q[2])

\* Mutant of like_post: the actor is merged instead of matched.
LikePostMergingActor(g, session_id, agent, target_post_id, now) ==
    LET g0 == MergeActor(g, session_id, agent)
        actors == EntityRows(g0, session_id, agent)
        targets == PostRows(g0, session_id, target_post_id)
        rows == actors \X targets
        fresh == {r \in rows : LikedEdges(g0, r[1], r[2]) = {}}
        g1 == [g0 EXCEPT !.liked = @ \cup
                 {[actor |-> r[1], post |-> r[2], timestamp |-> now] : r \in fresh}]
        first == FirstRow(rows)
        edge == CHOOSE e \in LikedEdges(g1, first[1], first[2]) : TRUE
    IN IF rows = {}
       THEN [g |-> g0, raised |-> TRUE, value |-> FALSE]
       ELSE [g |-> g1, raised |-> FALSE, value |-> (edge.timestamp = now)]

\* SocialGraphRepository.like_post: one transaction.
\*   MERGE (actor)-[liked:LIKED]->(post) ON CREATE SET liked.timestamp = $timestamp
\*   RETURN liked.timestamp = $timestamp AS created
like_post(g, session_id, agent, target_post_id, now) ==
    LET actors == EntityRows(g, session_id, agent)
        targets == PostRows(g, session_id, target_post_id)
        rows == actors \X targets
        fresh == {r \in rows : LikedEdges(g, r[1], r[2]) = {}}
        g1 == [g EXCEPT !.liked = @ \cup
                 {[actor |-> r[1], post |-> r[2], timestamp |-> now] : r \in fresh}]
        first == FirstRow(rows)
        edge == CHOOSE e \in LikedEdges(g1, first[1], first[2]) : TRUE
    IN IF rows = {}
       THEN [g |-> g, raised |-> TRUE, value |-> FALSE]
       ELSE [g |-> g1, raised |-> FALSE, value |-> (edge.timestamp = now)]

\* The post ids of a session's SocialPost nodes.
PostIds(g, session_id) ==
    {g.posts[i].post_id : i \in {j \in DOMAIN g.posts : g.posts[j].session_id = session_id}}

\* A post id no SocialPost carries.
MissingId == 99

\* ------------------------------------------------------------ perception
\* Row limit of the timeline sub-query (ORDER BY post.timestamp DESC LIMIT 5).
TimelineLimit == 5

\* The nodes a REPLIED_TO path of exactly d edges leads from to root.
RECURSIVE NodesAt(_, _, _)
NodesAt(g, root, d) ==
    IF d = 0 THEN {root}
    ELSE LET nearer == NodesAt(g, root, d - 1)
         IN {e[1] : e \in {x \in g.replied : x[2] \in nearer}}

\* ORIGINAL posts of the session, newest first, the first TimelineLimit of them.
RECURSIVE NewestFirst(_, _)
NewestFirst(g, S) ==
    IF S = {} THEN <<>>
    ELSE LET m == CHOOSE x \in S : \A y \in S :
                    \/ g.posts[x].timestamp > g.posts[y].timestamp
                    \/ (g.posts[x].timestamp = g.posts[y].timestamp /\ x <= y)
         IN <<m>> \o NewestFirst(g, S \ {m})

TimelineRows(g, session_id) ==
    LET originals == {i \in DOMAIN g.posts :
                        /\ g.posts[i].session_id = session_id
                        /\ g.posts[i].type = "ORIGINAL"}
        sorted == NewestFirst(g, originals)
    IN SubSeq(sorted, 1, IF Len(sorted) < TimelineLimit THEN Len(sorted) ELSE TimelineLimit)

\* The comments sub-query: one row per path (comment)-[:REPLIED_TO*1..]->(post),
\* nodes(path)[1] the node the comment replies to, length(path) its depth
\* (the author columns are left out).
CommentsUnder(g, session_id, root) ==
    {[comment_id |-> g.posts[x[1][1]].post_id,
      parent_id |-> g.posts[x[1][2]].post_id,
      depth |-> x[2],
      timestamp |-> g.posts[x[1][1]].timestamp] :
        x \in {y \in g.replied \X (1..Len(g.posts)) :
                /\ g.posts[y[1][1]].session_id = session_id
                /\ g.posts[y[1][1]].type = "COMMENT"
                /\ y[1][2] \in NodesAt(g, root, y[2] - 1)}}

\* Likes and comments others left on the agent's own posts.
SocialNotifications(g, session_id, me) ==
    LET mine == {p \in DOMAIN g.posts :
                    /\ g.posts[p].session_id = session_id
                    /\ <<me, p>> \in g.posted}
        others == {a \in DOMAIN g.entities :
                    /\ g.entities[a].session_id = session_id
                    /\ g.entities[a].entity_id # g.entities[me].entity_id}
    IN {[action_type |-> "LIKE", actor_id |-> g.entities[e.actor].entity_id,
         post_id |-> g.posts[e.post].post_id, timestamp |-> e.timestamp] :
            e \in {x \in g.liked : x.post \in mine /\ x.actor \in others}}
       \cup
       {[action_type |-> "COMMENT", actor_id |-> g.entities[r[1]].entity_id,
         post_id |-> g.posts[r[2]].post_id, timestamp |-> g.posts[r[3]].timestamp] :
            r \in {x \in others \X mine \X DOMAIN g.posts :
                    /\ g.posts[x[3]].session_id = session_id
                    /\ g.posts[x[3]].type = "COMMENT"
                    /\ <<x[3], x[2]>> \in g.replied
                    /\ <<x[1], x[3]>> \in g.posted}}

\* collect(row)[0..5] of the physical events sub-query.
PhysicalEventsLimit == 5

\* The rows of the physical events sub-query before ORDER BY: UNION ALL of
\* one row per event me INITIATED and target of it (one row without
\* counterpart when it has none) and one row per event that TARGETED me and
\* initiator of it in the session.
PhysicalEventRows(g, session_id, me) ==
    LET initiated == {e \in DOMAIN g.events :
                        g.events[e].session_id = session_id /\ <<me, e>> \in g.initiated}
        targeting == {e \in DOMAIN g.events :
                        g.events[e].session_id = session_id /\ <<e, me>> \in g.targeted}
        objs(e) == {o \in DOMAIN g.entities :
                        g.entities[o].session_id = session_id /\ <<e, o>> \in g.targeted}
        subs(e) == {a \in DOMAIN g.entities :
                        g.entities[a].session_id = session_id /\ <<a, e>> \in g.initiated}
        Row(e, role, c) == [event_id |-> g.events[e].event_id, node |-> e,
                            timestamp |-> g.events[e].timestamp,
                            verb |-> g.events[e].verb, role |-> role,
                            counterpart_id |-> c]
        Rows(e, role, others) ==
            IF others = {} THEN <<Row(e, role, NoneId)>>
            ELSE [k \in 1..Cardinality(others) |->
                    Row(e, role, g.entities[SetToSortedSeq(others)[k]].entity_id)]
        RECURSIVE All(_, _, _)
        All(S, role, which) ==
            IF S = {} THEN <<>>
            ELSE LET e == CHOOSE x \in S : \A y \in S : x <= y
                 IN Rows(e, role, IF which = "objs" THEN objs(e) ELSE subs(e))
                    \o All(S \ {e}, role, which)
    IN All(initiated, "subject", "objs") \o All(targeting, "object", "subs")

\* ORDER BY row.timestamp DESC (rows of one timestamp in the order they
\* were produced).
RECURSIVE OrderByRowTimestampDesc(_)
OrderByRowTimestampDesc(rows) ==
    IF rows = <<>> THEN <<>>
    ELSE LET k == CHOOSE i \in DOMAIN rows :
                    /\ \A j \in DOMAIN rows : rows[i].timestamp >= rows[j].timestamp
                    /\ \A j \in 1..(i - 1) : rows[j].timestamp # rows[i].timestamp
         IN <<rows[k]>> \o
            OrderByRowTimestampDesc(SubSeq(rows, 1, k - 1) \o SubSeq(rows, k + 1, Len(rows)))

\* The physical events sub-query.
PhysicalEvents(g, session_id, me) ==
    LET sorted == OrderByRowTimestampDesc(PhysicalEventRows(g, session_id, me))
    IN SubSeq(sorted, 1, IF Len(sorted) < PhysicalEventsLimit THEN Len(sorted)
                         ELSE PhysicalEventsLimit)

EmptyPayload ==
    [physical_events |-> <<>>, social_notifications |-> {}, timeline_posts |-> <<>>]

\* PerceptionService._load_perception_payload: a read transaction; no
\* Entity node for the agent gives no record and so the empty payload.
_load_perception_payload(g, session_id, agent) ==
    LET mes == EntityRows(g, session_id, agent)
        me == CHOOSE m \in mes : \A o \in mes : m <= o
        rows == TimelineRows(g, session_id)
    IN IF mes = {} THEN EmptyPayload
       ELSE [physical_events |-> PhysicalEvents(g, session_id, me),
             social_notifications |-> SocialNotifications(g, session_id, me),
             timeline_posts |->
                [k \in DOMAIN rows |->
                    [post_id |-> g.posts[rows[k]].post_id,
                     comments |-> CommentsUnder(g, session_id, rows[k])]]]

\* PerceptionService.get_formatted_perception: the text handed to the agent,
\* kept as the payload that _format_markdown renders.
get_formatted_perception(g, session_id, agent) ==
    _load_perception_payload(g, session_id, agent)

\* Mutant of execute_read: the query MERGEs the agent's Entity node instead
\* of matching it.
ExecuteReadMergingMe(g, session_id, agent) ==
    [g |-> MergeActor(g, session_id, agent),
     value |-> get_formatted_perception(MergeActor(g, session_id, agent),
                                        session_id, agent)]

\* session.execute_read(lambda tx: tx.run(_PERCEPTION_QUERY, params).single()):
\* the store the read transaction leaves (the query has MATCH, CALL, WITH
\* and RETURN clauses only) and what the caller gets.
execute_read(g, session_id, agent) ==
    [g |-> g, value |-> get_formatted_perception(g, session_id, agent)]

\* The replies to one parent left in the order the query returned them.
KeepQueryOrder(items) == items

\* items.sort(key=timestamp): list.sort is stable, items of one timestamp
\* keep the order the query gave them.  (_now_iso texts have one width, so
\* their string order is the order of the seconds.)
RECURSIVE SortByTimestamp(_)
SortByTimestamp(items) ==
    IF items = <<>> THEN <<>>
    ELSE LET k == CHOOSE i \in DOMAIN items :
                    /\ \A j \in DOMAIN items : items[i].timestamp <= items[j].timestamp
                    /\ \A j \in 1..(i - 1) : items[j].timestamp # items[i].timestamp
         IN <<items[k]>> \o
            SortByTimestamp(SubSeq(items, 1, k - 1) \o SubSeq(items, k + 1, Len(items)))

\* The line "  `- no comments yet": no prefix above it, the last-child
\* connector, no comment id.
NoCommentLine == [prefix |-> <<>>, is_last |-> TRUE, comment_id |-> NoneId]
\* walk() recursing without end: Python raises RecursionError.
RecursionError == [raised |-> "RecursionError"]

\* PerceptionService._format_comment_tree.  A line is kept as its parts: the
\* prefix as the is_last flags of the levels above (three characters
\* each), the connector as is_last, and the comment id.  walk() descends at
\* most one level per comment unless the parent ids form a cycle, where it
\* recurses until RecursionError.
_format_comment_tree(root_post_id, comments) ==
    LET Key(item) == IF item.parent_id # NoneId THEN item.parent_id
                     ELSE root_post_id
        keys == {Key(comments[i]) : i \in DOMAIN comments}
        by_parent == [k \in keys |->
                        SortByTimestamp(SelectSeq(comments, LAMBDA it : Key(it) = k))]
        RECURSIVE walk(_, _, _, _)
        walk(parent_id, prefix, idx, fuel) ==
            LET children == IF parent_id \in keys THEN by_parent[parent_id]
                            ELSE <<>>
                is_last == idx = Len(children)
                child == children[idx]
            IN IF fuel = 0 THEN <<RecursionError>>
               ELSE IF idx > Len(children) THEN <<>>
               ELSE <<[prefix |-> prefix, is_last |-> is_last,
                       comment_id |-> child.comment_id]>>
                    \o walk(child.comment_id, Append(prefix, is_last), 1, fuel - 1)
                    \o walk(parent_id, prefix, idx + 1, fuel)
        lines == walk(root_post_id, <<>>, 1, Len(comments) + 1)
    IN IF comments = <<>> \/ lines = <<>> THEN <<NoCommentLine>>
       ELSE lines

\* ------------------------------------------------------- social dynamics
\* The character ':' of a like's activity_id among the characters of the
\* ids: it sorts after every digit.
Colon == 10

\* The rows matched by the two branches of _SESSION_SOCIAL_DYNAMICS_QUERY:
\* <<"post", actor, post, parent or 0>> for (actor)-[:POSTED]->(post) with
\* the OPTIONAL MATCH of its parent, <<"like", actor, post, timestamp>> for
\* (actor)-[:LIKED]->(post).
DynamicsMatches(g, session_id) ==
    LET actors == {a \in DOMAIN g.entities : g.entities[a].session_id = session_id}
        posts == {i \in DOMAIN g.posts : g.posts[i].session_id = session_id}
        Parents(i) == {q \in posts : <<i, q>> \in g.replied}
    IN {<<"post", m[1], m[2], m[3]>> :
            m \in {x \in actors \X posts \X (posts \cup {0}) :
                    /\ <<x[1], x[2]>> \in g.posted
                    /\ IF Parents(x[2]) = {} THEN x[3] = 0
                       ELSE x[3] \in Parents(x[2])}}
       \cup
       {<<"like", e.actor, e.post, e.timestamp>> :
            e \in {x \in g.liked : x.actor \in actors /\ x.post \in posts}}

\* The columns the query returns for one match.
DynamicsRow(g, m) ==
    LET actor == g.entities[m[2]]
        post == g.posts[m[3]]
        actor_name == IF actor.name = None THEN actor.entity_id ELSE actor.name
    IN IF m[1] = "like"
       THEN [activity_id |-> <<actor.entity_id, Colon, post.post_id, Colon, m[4]>>,
             activity_type |-> "like",
             actor_id |-> actor.entity_id, actor_name |-> actor_name,
             post_id |-> post.post_id, target_post_id |-> post.post_id,
             content |-> None, timestamp |-> m[4]]
       ELSE [activity_id |-> <<post.post_id>>,
             activity_type |-> IF post.type = "COMMENT" THEN "comment" ELSE "post",
             actor_id |-> actor.entity_id, actor_name |-> actor_name,
             post_id |-> post.post_id,
             target_post_id |-> IF post.type = "COMMENT" /\ m[4] # 0
                                THEN g.posts[m[4]].post_id ELSE NoneId,
             content |-> post.content, timestamp |-> post.timestamp]

\* String order of two ids, character by character.
StrLess(a, b) ==
    \E k \in 1..(Len(b)) :
        /\ \A j \in 1..(k - 1) : j <= Len(a) /\ a[j] = b[j]
        /\ k > Len(a) \/ (k - 1 < Len(a) /\ a[k] < b[k])

\* ORDER BY timestamp DESC, activity_id DESC over the matched rows.
RECURSIVE OrderByTimestampDesc(_, _)
OrderByTimestampDesc(g, matches) ==
    IF matches = {} THEN <<>>
    ELSE LET Row(m) == DynamicsRow(g, m)
             first == CHOOSE m \in matches : \A o \in matches :
                        \/ Row(m).timestamp > Row(o).timestamp
                        \/ /\ Row(m).timestamp = Row(o).timestamp
                           /\ ~StrLess(Row(m).activity_id, Row(o).activity_id)
         IN <<Row(first)>> \o OrderByTimestampDesc(g, matches \ {first})

\* The feed built from the rows of every session.
ListDynamicsOfEverySession(g, session_id) ==
    LET items == OrderByTimestampDesc(g,
                    UNION {DynamicsMatches(g, s) : s \in {"s1", "s2"}})
    IN [session_id |-> session_id, total |-> Len(items), items |-> items]

\* SocialDynamicsService.list_session_social_dynamics; _normalize_record
\* drops a row without activity, actor or post id.
list_session_social_dynamics(g, session_id) ==
    LET records == OrderByTimestampDesc(g, DynamicsMatches(g, session_id))
        items == SelectSeq(records, LAMBDA row :
                    /\ row.activity_id # <<>>
                    /\ row.actor_id # NoneId
                    /\ row.post_id # NoneId)
    IN [session_id |-> session_id, total |-> Len(items), items |-> items]

\* ------------------------------------------------------------- anima_app
\* Values of the ActionType enum.
ActionType == {"post", "like", "comment", "repost", "noop"}

Text(kind, what) == <<kind, what>>
\* result_text.startswith("Error:")
StartsWithError(text) == text[1] = "Error:"

\* isinstance(x, str) and x.strip()
NonBlankStr(x) == x \notin {None, "", " "}
NonBlankId(x) == x # NoneId

NoArgs == [action_type |-> None, content |-> None, target_post_id |-> NoneId]

\* What json.loads gives for a text that is no JSON object: a list, a
\* number, a string, null.
NotADict == [not_a_dict |-> TRUE]

\* A JSON text, by what json.loads does with it: "object" decodes to the
\* dict args, "other" to a value that is no dict, "error" raises
\* JSONDecodeError.
JsonText(decodes, args) == [kind |-> "str", decodes |-> decodes, args |-> args]

\* raw_args of a tool call: a dict, a JSON string, or something else.
\* A string that does not parse and a value of another type give {}.
ParseArgs(raw) ==
    IF raw.kind = "dict" THEN raw.args
    ELSE IF raw.kind = "str"
    THEN IF raw.decodes = "object" THEN raw.args
         ELSE IF raw.decodes = "other" THEN NotADict
         ELSE NoArgs
    ELSE NoArgs

\* Mutants of state_session_id / state_agent_uuid: an identifier given in
\* the tool-call arguments is preferred to the one of the state.
SessionIdFromArgs(session_id, args) ==
    IF "session_id" \in DOMAIN args THEN args.session_id ELSE session_id

AgentUuidFromArgs(agent, args) ==
    IF "agent_uuid" \in DOMAIN args THEN args.agent_uuid ELSE agent

\* session_id = state.get("session_id", ""), agent_uuid = state.get(
\* "agent_uuid", ""): whatever the arguments of the tool call hold.
state_session_id(session_id, args) == session_id

state_agent_uuid(agent, args) == agent

AIMessage(tool_calls) == [type |-> "ai", tool_calls |-> tool_calls]
ToolMessage(content) == [type |-> "tool", content |-> content]

\* runtime.execute_action_node from tool_call = last_message.tool_calls[0]
\* on: [g: the graph after, message: the ToolMessage, raised: args.get(...)
\* on a value that is no dict left the node with AttributeError, message
\* then naming the exception].
\* up: whether the repository call reaches Neo4j (it raises otherwise, and
\* every repository exception is caught here).
ExecuteToolCall(g, session_id, agent, tool_call, now, up) ==
    LET args == ParseArgs(tool_call)
        content == args.content
        target_post_id == args.target_post_id
        sid == state_session_id(session_id, args)
        who == state_agent_uuid(agent, args)
        Out(g2, kind, what) ==
            [g |-> g2, message |-> ToolMessage(Text(kind, what)), raised |-> FALSE]
        posted == create_post(g, sid, who, content, now)
        liked == like_post(g, sid, who, target_post_id, now)
        commented == create_comment(g, sid, who, target_post_id, content, now)
    IN IF args = NotADict
       THEN [g |-> g, message |-> ToolMessage(Text("AttributeError", "get")),
             raised |-> TRUE]
       ELSE IF args.action_type \notin ActionType
       THEN Out(g, "Error:", "Unsupported action_type.")
       ELSE IF args.action_type = "post"
       THEN IF ~NonBlankStr(content)
            THEN Out(g, "Error:", "POST action requires content.")
            ELSE IF ~up \/ posted.raised
            THEN Out(g, "Error:", "POST execution failed")
            ELSE Out(posted.g, "Success:", "POST executed.")
       ELSE IF args.action_type = "like"
       THEN IF ~NonBlankId(target_post_id)
            THEN Out(g, "Error:", "LIKE action requires target_post_id.")
            ELSE IF ~up \/ liked.raised
            THEN Out(g, "Error:", "LIKE execution failed")
            ELSE IF liked.value
            THEN Out(liked.g, "Success:", "LIKE executed. New like recorded.")
            ELSE Out(liked.g, "Success:", "LIKE executed. Already liked before.")
       ELSE IF args.action_type = "comment"
       THEN IF ~NonBlankId(target_post_id)
            THEN Out(g, "Error:", "COMMENT action requires target_post_id.")
            ELSE IF ~NonBlankStr(content)
            THEN Out(g, "Error:", "COMMENT action requires content.")
            ELSE IF ~up \/ commented.raised
            THEN Out(g, "Error:", "COMMENT execution failed")
            ELSE Out(commented.g, "Success:", "COMMENT executed.")
       ELSE IF args.action_type = "noop"
       THEN Out(g, "Success:", "NOOP action executed.")
       ELSE Out(g, "Error:", "Unsupported action_type.")

\* The node running every tool call of the reply, one after the other.
ExecuteEveryToolCall(g, session_id, agent, messages, now, up) ==
    LET last_message == messages[Len(messages)]
        tool_calls == last_message.tool_calls
        first == ExecuteToolCall(g, session_id, agent, tool_calls[1], now, up)
        second == ExecuteToolCall(first.g, session_id, agent, tool_calls[2], now, up)
    IN IF messages = <<>> \/ last_message.type # "ai" \/ tool_calls = <<>>
       THEN [g |-> g, message |-> ToolMessage(Text("Error:", "no tool call.")),
             raised |-> FALSE]
       ELSE IF Len(tool_calls) = 1 \/ first.raised THEN first
       ELSE second

\* runtime.execute_action_node: the checks of the last message, then the
\* first tool call alone.
execute_action_node(g, session_id, agent, messages, now, up) ==
    LET last_message == messages[Len(messages)]
        Out(kind, what) ==
            [g |-> g, message |-> ToolMessage(Text(kind, what)), raised |-> FALSE]
    IN IF messages = <<>>
       THEN Out("Error:", "execute_action_node received empty messages.")
       ELSE IF last_message.type # "ai"
       THEN Out("Error:", "last message is not an AIMessage.")
       ELSE IF last_message.tool_calls = <<>>
       THEN Out("Error:", "no tool_calls found in AIMessage.")
       ELSE ExecuteToolCall(g, session_id, agent, last_message.tool_calls[1], now, up)

\* runtime.should_continue
should_continue(messages) ==
    IF messages = <<>> THEN "END"
    ELSE IF /\ messages[Len(messages)].type = "ai"
            /\ messages[Len(messages)].tool_calls # <<>>
    THEN "execute_action"
    ELSE "END"

\* The replies the bound LLM can give to think_node: it raises (no client,
\* a failed or timed-out call), or answers with zero or one tool call.
Dict(action_type, content, target_post_id) ==
    [kind |-> "dict",
     args |-> [action_type |-> action_type, content |-> content,
               target_post_id |-> target_post_id]]

LLMReplies(g, session_id) ==
    {[raises |-> TRUE, tool_calls |-> <<>>], [raises |-> FALSE, tool_calls |-> <<>>]}
    \cup
    {[raises |-> FALSE, tool_calls |-> <<d>>] : d \in
        {Dict("post", "hi", NoneId), Dict("post", None, NoneId),
         Dict("noop", None, NoneId), Dict("repost", "hi", MissingId)}
        \cup {Dict("like", None, t) : t \in PostIds(g, session_id) \cup {MissingId}}
        \cup {Dict("comment", "hi", t) : t \in PostIds(g, session_id)}}

\* The replies drawn in the concurrent tick: like and comment name the newest
\* post of the session or a post that does not exist.
NewestPostId(g, session_id) ==
    CHOOSE p \in PostIds(g, session_id) : \A q \in PostIds(g, session_id) : p >= q

ConcurrentReplies(g, session_id) ==
    {[raises |-> TRUE, tool_calls |-> <<>>], [raises |-> FALSE, tool_calls |-> <<>>]}
    \cup
    {[raises |-> FALSE, tool_calls |-> <<d>>] : d \in
        {Dict("post", "hi", NoneId), Dict("noop", None, NoneId),
         Dict("like", None, MissingId)}
        \cup (IF PostIds(g, session_id) = {} THEN {}
              ELSE {Dict("like", None, NewestPostId(g, session_id)),
                    Dict("comment", "hi", NewestPostId(g, session_id))})}

\* runtime.think_node: the reply is appended to the thread's messages.
think_node(messages, reply) == Append(messages, AIMessage(reply.tool_calls))

\* ------------------------------------------------------ initial states
\* A graph in which every agent of S already has its Entity node.
RECURSIVE WithEntities(_, _)
WithEntities(g, S) ==
    IF S = {} THEN g
    ELSE LET a == CHOOSE x \in S : \A y \in S : x <= y
         IN WithEntities(MergeActor(g, SessionId, a), S \ {a})

\* A graph left by earlier activity: every agent has its Entity node and
\* agent 1 has created one post.
SeedGraph == create_post(WithEntities(EmptyGraph, Agents), SessionId, 1, "seed", 0).g

InitGraph ==
    /\ graph \in {EmptyGraph, SeedGraph}
    /\ clock = 1
    /\ checkpoint = [a \in Agents |-> <<>>]
    /\ history = <<>>

IdleWorld ==
    /\ registry = {}
    /\ wpc = "idle"
    /\ pending_agents = <<>>
    /\ completed_agents = <<>>
    /\ agent_uuid = 0
    /\ recent_memory = EmptyPayload
    /\ roster = <<>>

IdleSched ==
    /\ spc = "idle"
    /\ agent_uuids = <<>>
    /\ apc = <<>>
    /\ memory_text = <<>>
    /\ results = <<>>
    /\ response = [returned |-> FALSE]

OtherSession == "s2"

Sessions == {SessionId, OtherSession}

\* No list object allocated yet; the next uuid4 is 1.
EmptyHeap == [lists |-> <<>>, next_uuid |-> 1]

\* _POSTS_BY_SESSION without any post.
EmptyPool == [sid \in Sessions |-> <<>>]

IdleEvent ==
    /\ posts_by_session = EmptyPool
    /\ heap = EmptyHeap
    /\ epc = "idle"
    /\ target_thread_ids = <<>>
    /\ social_posts = <<>>
    /\ ipc = <<>>
    /\ sent_posts = <<>>
    /\ inferred_actions = <<>>
    /\ apply_idx = 0
    /\ event_posts = <<>>
    /\ elog = <<>>

\* No call made yet.
NoCall == [op |-> "none"]

IdleRepo ==
    /\ calls = 0
    /\ like_returns = <<>>
    /\ last_call = NoCall
    /\ posts_lock = FALSE
    /\ callers = <<>>

\* ------------------------------------------------- world_app (world tick)
\* Whole seconds the inter-agent delay asyncio.sleep(uniform(1.5, 3.5)) moves
\* the clock by.
SleepSeconds == {2, 3}

Log(op, agent, wrote) == [op |-> op, agent |-> agent, wrote |-> wrote]

\* init_world_tick: pending_agents = sorted registry of the session.
init_world_tick ==
    /\ wpc = "init"
    /\ pending_agents' = SetToSortedSeq(registry)
    /\ completed_agents' = <<>>
    /\ roster' = SetToSortedSeq(registry)
    /\ wpc' = "node"
    /\ UNCHANGED <<registry, agent_uuid, recent_memory>>
    /\ UNCHANGED <<graphVars, schedVars, eventVars, repoVars>>

\* run_next_agent_node, empty queue: the state is returned as it is.
RunNextEmpty ==
    /\ wpc = "node"
    /\ pending_agents = <<>>
    /\ wpc' = "route"
    /\ UNCHANGED <<registry, pending_agents, completed_agents, agent_uuid,
                   recent_memory, roster>>
    /\ UNCHANGED <<graphVars, schedVars, eventVars, repoVars>>

\* Mutant of PopAgent: pending_agents.pop() takes the agent at the tail.
PopAgentFromTail ==
    /\ wpc = "node"
    /\ pending_agents # <<>>
    /\ agent_uuid' = pending_agents[Len(pending_agents)]
    /\ pending_agents' = SubSeq(pending_agents, 1, Len(pending_agents) - 1)
    /\ wpc' = "perceive"
    /\ UNCHANGED <<registry, completed_agents, recent_memory, roster>>
    /\ UNCHANGED <<graphVars, schedVars, eventVars, repoVars>>

\* run_next_agent_node: agent_uuid = pending_agents.pop(0)
PopAgent ==
    /\ wpc = "node"
    /\ pending_agents # <<>>
    /\ agent_uuid' = Head(pending_agents)
    /\ pending_agents' = Tail(pending_agents)
    /\ wpc' = "perceive"
    /\ UNCHANGED <<registry, completed_agents, recent_memory, roster>>
    /\ UNCHANGED <<graphVars, schedVars, eventVars, repoVars>>

\* run_next_agent_node: recent_memory = get_formatted_perception(...); a
\* failed read raises out of the node and out of world_app.ainvoke.
WorldPerceive ==
    /\ wpc = "perceive"
    /\ \E up \in BOOLEAN :
        IF up
        THEN /\ recent_memory' = get_formatted_perception(graph, SessionId, agent_uuid)
             /\ history' = Append(history, Log("perceive", agent_uuid, FALSE))
             /\ wpc' = "think"
        ELSE /\ wpc' = "failed"
             /\ UNCHANGED <<recent_memory, history>>
    /\ UNCHANGED <<graph, clock, checkpoint>>
    /\ UNCHANGED <<registry, pending_agents, completed_agents, agent_uuid, roster>>
    /\ UNCHANGED <<schedVars, eventVars, repoVars>>

\* anima_app.invoke, node think: an exception of the LLM call is not caught
\* by run_next_agent_node.
WorldThink ==
    /\ wpc = "think"
    /\ \E reply \in LLMReplies(graph, SessionId) :
        IF reply.raises
        THEN /\ wpc' = "failed"
             /\ UNCHANGED checkpoint
        ELSE LET thought == think_node(checkpoint[agent_uuid], reply)
             IN /\ checkpoint' = [checkpoint EXCEPT ![agent_uuid] = thought]
                /\ wpc' = IF should_continue(thought) = "execute_action"
                          THEN "execute" ELSE "sleep"
    /\ UNCHANGED <<graph, clock, history>>
    /\ UNCHANGED <<registry, pending_agents, completed_agents, agent_uuid,
                   recent_memory, roster>>
    /\ UNCHANGED <<schedVars, eventVars, repoVars>>

\* anima_app.invoke, node execute_action.
WorldExecute ==
    /\ wpc = "execute"
    /\ \E up \in BOOLEAN :
        LET done == execute_action_node(graph, SessionId, agent_uuid,
                                        checkpoint[agent_uuid], clock, up)
        IN /\ graph' = done.g
           /\ checkpoint' = [checkpoint EXCEPT ![agent_uuid] = Append(@, done.message)]
           /\ history' = Append(history, Log("execute", agent_uuid, done.g # graph))
    /\ wpc' = "sleep"
    /\ UNCHANGED clock
    /\ UNCHANGED <<registry, pending_agents, completed_agents, agent_uuid,
                   recent_memory, roster>>
    /\ UNCHANGED <<schedVars, eventVars, repoVars>>

\* run_next_agent_node: the delay, then completed_agents.append(agent_uuid).
WorldSleep ==
    /\ wpc = "sleep"
    /\ \E d \in SleepSeconds : clock' = clock + d
    /\ completed_agents' = Append(completed_agents, agent_uuid)
    /\ wpc' = "route"
    /\ UNCHANGED <<graph, checkpoint, history>>
    /\ UNCHANGED <<registry, pending_agents, agent_uuid, recent_memory, roster>>
    /\ UNCHANGED <<schedVars, eventVars, repoVars>>

\* The router sending the tick back to the node whatever the queue holds.
RouterAlwaysContinues ==
    /\ wpc = "route"
    /\ wpc' = "node"
    /\ UNCHANGED <<registry, pending_agents, completed_agents, agent_uuid,
                   recent_memory, roster>>
    /\ UNCHANGED <<graphVars, schedVars, eventVars, repoVars>>

\* router_condition: END when the queue is empty, else the node again.
router_condition ==
    /\ wpc = "route"
    /\ wpc' = IF pending_agents = <<>> THEN "done" ELSE "node"
    /\ UNCHANGED <<registry, pending_agents, completed_agents, agent_uuid,
                   recent_memory, roster>>
    /\ UNCHANGED <<graphVars, schedVars, eventVars, repoVars>>

InitWorld ==
    /\ InitGraph
    /\ registry \in SUBSET Agents
    /\ wpc = "init"
    /\ pending_agents = <<>>
    /\ completed_agents = <<>>
    /\ agent_uuid = 0
    /\ recent_memory = EmptyPayload
    /\ roster = <<>>
    /\ IdleSched /\ IdleEvent /\ IdleRepo

NextWorld ==
    \/ init_world_tick
    \/ RunNextEmpty
    \/ PopAgent
    \/ WorldPerceive
    \/ WorldThink
    \/ WorldExecute
    \/ WorldSleep
    \/ router_condition

SpecWorld == InitWorld /\ [][NextWorld]_vars

\* The tick under its scheduler: LangGraph runs the next node as soon as the
\* previous one has returned, and every awaited call returns or raises.
SpecWorldFair == SpecWorld /\ WF_vars(NextWorld)

\* ------------------------------------------- AgentScheduler.run_tick
\* A graph whose only nodes belong to another session.
OtherGraph == create_post(EmptyGraph, OtherSession, 1, "elsewhere", 0).g

\* A graph in which the agents of S have Entity nodes and the first of them,
\* if any, has created one post.
Seeded(S) ==
    IF S = {} THEN EmptyGraph
    ELSE create_post(WithEntities(EmptyGraph, S), SessionId,
                     CHOOSE x \in S : \A y \in S : x <= y, "seed", 0).g

\* Mutant of _list_active_agent_uuids: MATCH (e:Entity) without the session.
ListAgentsOfEverySession(g, session_id) ==
    SetToSortedSeq({g.entities[i].entity_id : i \in DOMAIN g.entities})

\* AgentScheduler._list_active_agent_uuids:
\*   MATCH (e:Entity {session_id: $session_id})
\*   RETURN DISTINCT e.entity_id AS agent_uuid ORDER BY agent_uuid
_list_active_agent_uuids(g, session_id) ==
    SetToSortedSeq({g.entities[i].entity_id :
        i \in {j \in DOMAIN g.entities : g.entities[j].session_id = session_id}})

NoResult == [agent_uuid |-> 0, success |-> FALSE, message |-> Text("", "")]

TickAgentResult(agent, success, message) ==
    [agent_uuid |-> agent, success |-> success, message |-> message]

\* The text run_agent_social_cycle returns: the content of the last
\* ToolMessage of the thread's messages.
RECURSIVE LastToolText(_)
LastToolText(messages) ==
    IF messages = <<>>
    THEN Text("Error:", "Agent cycle finished without ToolMessage.")
    ELSE IF messages[Len(messages)].type = "tool"
    THEN messages[Len(messages)].content
    ELSE LastToolText(SubSeq(messages, 1, Len(messages) - 1))

\* _run_single_agent: the TickAgentResult of a cycle that returned.
CycleResult(agent, messages) ==
    TickAgentResult(agent, ~StartsWithError(LastToolText(messages)),
                    LastToolText(messages))

\* _run_single_agent: the TickAgentResult of the except branch; the message
\* carries the text of the exception caught.
FailedResult(agent, exc) ==
    TickAgentResult(agent, FALSE, Text("Agent tick failed:", exc))

\* Mutant of GatherSlot: results are collected in the order the tasks end
\* (asyncio.as_completed).
GatherSlotAsCompleted(res, i, r) ==
    LET free == {k \in DOMAIN res : res[k] = NoResult}
    IN [res EXCEPT ![CHOOSE k \in free : \A j \in free : k <= j] = r]

\* asyncio.gather: the result of the i-th awaitable goes to the i-th slot.
GatherSlot(res, i, r) == [res EXCEPT ![i] = r]

EventTickResponse(total, res) ==
    LET succeeded == Cardinality({i \in DOMAIN res : res[i].success})
    IN [returned |-> TRUE, total_agents |-> total, succeeded |-> succeeded,
        failed |-> Len(res) - succeeded, results |-> res]

\* run_tick: the roster is read; an empty roster returns at once, otherwise
\* gather starts one _run_single_agent task per agent.
RunTickList ==
    /\ spc = "init"
    /\ \E up \in BOOLEAN :
        IF ~up
        THEN /\ spc' = "raised"
             /\ UNCHANGED <<agent_uuids, apc, memory_text, results, response>>
        ELSE LET ids == _list_active_agent_uuids(graph, SessionId)
             IN /\ agent_uuids' = ids
                /\ IF ids = <<>>
                   THEN /\ response' = EventTickResponse(0, <<>>)
                        /\ spc' = "returned"
                        /\ UNCHANGED <<apc, memory_text, results>>
                   ELSE /\ apc' = [i \in DOMAIN ids |-> "perceive"]
                        /\ memory_text' = [i \in DOMAIN ids |-> EmptyPayload]
                        /\ results' = [i \in DOMAIN ids |-> NoResult]
                        /\ spc' = "gather"
                        /\ UNCHANGED response
    /\ UNCHANGED <<graphVars, worldVars, eventVars, repoVars>>

\* _run_single_agent: the perception read; an exception ends the task with a
\* failed result.
TaskPerceive(i) ==
    /\ spc = "gather"
    /\ apc[i] = "perceive"
    /\ \E up \in BOOLEAN :
        IF up
        THEN /\ memory_text' = [memory_text EXCEPT ![i] =
                    get_formatted_perception(graph, SessionId, agent_uuids[i])]
             /\ apc' = [apc EXCEPT ![i] = "think"]
             /\ UNCHANGED <<results, history>>
        ELSE /\ results' = GatherSlot(results, i, FailedResult(agent_uuids[i], "ServiceUnavailable"))
             /\ apc' = [apc EXCEPT ![i] = "done"]
             /\ UNCHANGED <<memory_text, history>>
    /\ UNCHANGED <<graph, clock, checkpoint>>
    /\ UNCHANGED <<spc, agent_uuids, response>>
    /\ UNCHANGED <<worldVars, eventVars, repoVars>>

\* run_agent_social_cycle, node think; memory_text is handed over and not
\* read again.
TaskThink(i) ==
    /\ spc = "gather"
    /\ apc[i] = "think"
    /\ \E reply \in ConcurrentReplies(graph, SessionId) :
        IF reply.raises
        THEN /\ results' = GatherSlot(results, i, FailedResult(agent_uuids[i], "LLM error"))
             /\ apc' = [apc EXCEPT ![i] = "done"]
             /\ UNCHANGED checkpoint
        ELSE LET thought == think_node(checkpoint[agent_uuids[i]], reply)
             IN /\ checkpoint' = [checkpoint EXCEPT ![agent_uuids[i]] = thought]
                /\ IF should_continue(thought) = "execute_action"
                   THEN /\ apc' = [apc EXCEPT ![i] = "execute"]
                        /\ UNCHANGED results
                   ELSE /\ apc' = [apc EXCEPT ![i] = "done"]
                        /\ results' = GatherSlot(results, i,
                                        CycleResult(agent_uuids[i], thought))
    /\ UNCHANGED <<graph, clock, history>>
    /\ memory_text' = [memory_text EXCEPT ![i] = EmptyPayload]
    /\ UNCHANGED <<spc, agent_uuids, response>>
    /\ UNCHANGED <<worldVars, eventVars, repoVars>>

\* run_agent_social_cycle, node execute_action, and the result of the task.
TaskExecute(i) ==
    /\ spc = "gather"
    /\ apc[i] = "execute"
    /\ \E up \in BOOLEAN :
        LET a == agent_uuids[i]
            done == execute_action_node(graph, SessionId, a, checkpoint[a], clock, up)
            after == Append(checkpoint[a], done.message)
        IN /\ graph' = done.g
           /\ checkpoint' = [checkpoint EXCEPT ![a] = after]
           /\ history' = Append(history, Log("execute", a, done.g # graph))
           /\ results' = GatherSlot(results, i, CycleResult(a, after))
    /\ apc' = [apc EXCEPT ![i] = "done"]
    /\ UNCHANGED clock
    /\ UNCHANGED <<spc, agent_uuids, memory_text, response>>
    /\ UNCHANGED <<worldVars, eventVars, repoVars>>

\* Mutant of RunTickReturn: the summary is built once the first task has
\* ended (asyncio.wait(..., return_when=FIRST_COMPLETED)).
RunTickReturnEarly ==
    /\ spc = "gather"
    /\ \E i \in DOMAIN apc : apc[i] = "done"
    /\ response' = EventTickResponse(Len(agent_uuids), results)
    /\ spc' = "returned"
    /\ UNCHANGED <<agent_uuids, apc, memory_text, results>>
    /\ UNCHANGED <<graphVars, worldVars, eventVars, repoVars>>

\* run_tick: gather has joined every task; the summary is returned.
RunTickReturn ==
    /\ spc = "gather"
    /\ \A i \in DOMAIN apc : apc[i] = "done"
    /\ response' = EventTickResponse(Len(agent_uuids), results)
    /\ spc' = "returned"
    /\ UNCHANGED <<agent_uuids, apc, memory_text, results>>
    /\ UNCHANGED <<graphVars, worldVars, eventVars, repoVars>>

InitTick ==
    /\ graph \in {Seeded(S) : S \in SUBSET Agents} \cup {OtherGraph}
    /\ clock = 1
    /\ checkpoint = [a \in Agents |-> <<>>]
    /\ history = <<>>
    /\ IdleWorld /\ IdleEvent /\ IdleRepo
    /\ spc = "init"
    /\ agent_uuids = <<>>
    /\ apc = <<>>
    /\ memory_text = <<>>
    /\ results = <<>>
    /\ response = [returned |-> FALSE]

NextTick ==
    \/ RunTickList
    \/ \E i \in DOMAIN apc : TaskPerceive(i)
    \/ \E i \in DOMAIN apc : TaskThink(i)
    \/ \E i \in DOMAIN apc : TaskExecute(i)
    \/ RunTickReturn

SpecTick == InitTick /\ [][NextTick]_vars

\* ------------------------------------- action_executor: the post pool
\* An absent payload of ActionData (post / like / comment / repost / noop).
NonePayload == [none |-> TRUE]

\* ActionData as validate_by_type admits it: the payload of its type is
\* set and every other payload is None.
ActionData(type, payload) ==
    [type |-> type,
     post |-> IF type = "post" THEN payload ELSE NonePayload,
     like |-> IF type = "like" THEN payload ELSE NonePayload,
     comment |-> IF type = "comment" THEN payload ELSE NonePayload,
     repost |-> IF type = "repost" THEN payload ELSE NonePayload,
     noop |-> IF type = "noop" THEN payload ELSE NonePayload]

\* A new list object holding items; its reference is Len(hp.lists) + 1.
NewList(hp, items) == [hp EXCEPT !.lists = Append(@, items)]

\* PostItem.new: a fresh post_id and two fresh empty lists (default_factory).
PostItemNew(hp, author_id, content, repost_of_post_id, now) ==
    [post_id |-> hp.next_uuid, author_id |-> author_id, content |-> content,
     likes |-> Len(hp.lists) + 1, comments |-> Len(hp.lists) + 2,
     repost_count |-> 0, repost_of_post_id |-> repost_of_post_id,
     created_at |-> now]

AfterPostItemNew(hp) ==
    [hp EXCEPT !.lists = @ \o <<<<>>, <<>>>>, !.next_uuid = @ + 1]

\* The index of the first post carrying post_id (0: none): the for loops
\* of apply_action stop at the first match.
FirstIndex(posts, post_id) ==
    LET hits == {k \in DOMAIN posts : posts[k].post_id = post_id}
    IN IF hits = {} THEN 0 ELSE CHOOSE k \in hits : \A j \in hits : k <= j

Out2(posts, hp) == [posts |-> posts, heap |-> hp]

\* apply_action, POST branch.
ApplyPost(posts, hp, actor_id, action, now) ==
    Out2(Append(posts, PostItemNew(hp, actor_id, action.post.content, NoneId, now)),
         AfterPostItemNew(hp))

\* Mutant of ApplyLike: the like is appended to the post's own likes list
\* (item.likes.append(...)) instead of to a new list.
ApplyLikeInPlace(posts, hp, actor_id, action, now) ==
    LET idx == FirstIndex(posts, action.like.target_post_id)
        item == posts[idx]
    IN IF idx = 0 THEN Out2(posts, hp)
       ELSE IF \E k \in DOMAIN hp.lists[item.likes] :
                    hp.lists[item.likes][k].user_id = actor_id
       THEN Out2(posts, hp)
       ELSE Out2(posts,
                 [hp EXCEPT !.lists[item.likes] =
                    Append(@, [user_id |-> actor_id, liked_at |-> now])])

\* Mutant of ApplyLike: the any(like.user_id == actor_id ...) test is gone.
ApplyLikeAlways(posts, hp, actor_id, action, now) ==
    LET idx == FirstIndex(posts, action.like.target_post_id)
        item == posts[idx]
        new_likes == Append(hp.lists[item.likes],
                            [user_id |-> actor_id, liked_at |-> now])
    IN IF idx = 0 THEN Out2(posts, hp)
       ELSE Out2([posts EXCEPT ![idx] = [item EXCEPT !.likes = Len(hp.lists) + 1]],
                 NewList(hp, new_likes))

\* apply_action, LIKE branch: one like per user_id; new_likes is a new list.
ApplyLike(posts, hp, actor_id, action, now) ==
    LET idx == FirstIndex(posts, action.like.target_post_id)
        item == posts[idx]
        new_likes == Append(hp.lists[item.likes],
                            [user_id |-> actor_id, liked_at |-> now])
    IN IF idx = 0 THEN Out2(posts, hp)
       ELSE IF \E k \in DOMAIN hp.lists[item.likes] :
                    hp.lists[item.likes][k].user_id = actor_id
       THEN Out2(posts, hp)
       ELSE Out2([posts EXCEPT ![idx] = [item EXCEPT !.likes = Len(hp.lists) + 1]],
                 NewList(hp, new_likes))

\* The COMMENT branch keeping the new comment alone: new_comments without
\* *item.comments.
ApplyCommentAlone(posts, hp, actor_id, action, now) ==
    LET idx == FirstIndex(posts, action.comment.target_post_id)
        item == posts[idx]
        new_comments == <<[comment_id |-> hp.next_uuid, user_id |-> actor_id,
                           content |-> action.comment.content,
                           created_at |-> now]>>
    IN IF idx = 0 THEN Out2(posts, hp)
       ELSE Out2([posts EXCEPT ![idx] = [item EXCEPT !.comments = Len(hp.lists) + 1]],
                 [NewList(hp, new_comments) EXCEPT !.next_uuid = @ + 1])

\* apply_action, COMMENT branch: new_comments is a new list.
ApplyComment(posts, hp, actor_id, action, now) ==
    LET idx == FirstIndex(posts, action.comment.target_post_id)
        item == posts[idx]
        new_comments == Append(hp.lists[item.comments],
                               [comment_id |-> hp.next_uuid, user_id |-> actor_id,
                                content |-> action.comment.content,
                                created_at |-> now])
    IN IF idx = 0 THEN Out2(posts, hp)
       ELSE Out2([posts EXCEPT ![idx] = [item EXCEPT !.comments = Len(hp.lists) + 1]],
                 [NewList(hp, new_comments) EXCEPT !.next_uuid = @ + 1])

\* Mutant of ApplyRepost: the repost is appended without the
\* target_exists test.
ApplyRepostUnchecked(posts, hp, actor_id, action, now) ==
    LET idx == FirstIndex(posts, action.repost.target_post_id)
        item == posts[idx]
        counted == IF idx = 0 THEN posts
                   ELSE [posts EXCEPT ![idx] = [item EXCEPT !.repost_count = @ + 1]]
    IN Out2(Append(counted,
                   PostItemNew(hp, actor_id, action.repost.comment,
                               action.repost.target_post_id, now)),
            AfterPostItemNew(hp))

\* apply_action, REPOST branch: repost_count + 1 on the target, then a new
\* post that names it.
ApplyRepost(posts, hp, actor_id, action, now) ==
    LET idx == FirstIndex(posts, action.repost.target_post_id)
        item == posts[idx]
        counted == [posts EXCEPT ![idx] = [item EXCEPT !.repost_count = @ + 1]]
    IN IF idx = 0 THEN Out2(posts, hp)
       ELSE Out2(Append(counted,
                        PostItemNew(hp, actor_id, action.repost.comment,
                                    action.repost.target_post_id, now)),
                 AfterPostItemNew(hp))

\* The post id an action names (NoneId: none).
TargetOf(action) ==
    IF action.type = "like" /\ action.like # NonePayload
    THEN action.like.target_post_id
    ELSE IF action.type = "comment" /\ action.comment # NonePayload
    THEN action.comment.target_post_id
    ELSE IF action.type = "repost" /\ action.repost # NonePayload
    THEN action.repost.target_post_id
    ELSE NoneId

\* Mutant of apply_action: the target is looked up in the pool of every
\* session and the action lands in the session that holds it.
ApplyActionInAnySession(pool, hp, session_id, actor_id, action, now) ==
    LET holders == {sid \in DOMAIN pool :
                        FirstIndex(pool[sid], TargetOf(action)) # 0}
        home == IF holders = {} \/ session_id \in holders THEN session_id
                ELSE CHOOSE sid \in holders : TRUE
        posts == pool[home]
        out == IF action.type = "post" /\ action.post # NonePayload
               THEN ApplyPost(posts, hp, actor_id, action, now)
               ELSE IF action.type = "like" /\ action.like # NonePayload
               THEN ApplyLike(posts, hp, actor_id, action, now)
               ELSE IF action.type = "comment" /\ action.comment # NonePayload
               THEN ApplyComment(posts, hp, actor_id, action, now)
               ELSE IF action.type = "repost" /\ action.repost # NonePayload
               THEN ApplyRepost(posts, hp, actor_id, action, now)
               ELSE Out2(posts, hp)
    IN [pool |-> [pool EXCEPT ![home] = out.posts],
        heap |-> out.heap,
        value |-> IF home = session_id THEN out.posts ELSE pool[session_id]]

\* action_executor.apply_action, under _POSTS_LOCK:
\* [pool, heap, value: the list of copies returned].
apply_action(pool, hp, session_id, actor_id, action, now) ==
    LET posts == pool[session_id]
        out == IF action.type = "post" /\ action.post # NonePayload
               THEN ApplyPost(posts, hp, actor_id, action, now)
               ELSE IF action.type = "like" /\ action.like # NonePayload
               THEN ApplyLike(posts, hp, actor_id, action, now)
               ELSE IF action.type = "comment" /\ action.comment # NonePayload
               THEN ApplyComment(posts, hp, actor_id, action, now)
               ELSE IF action.type = "repost" /\ action.repost # NonePayload
               THEN ApplyRepost(posts, hp, actor_id, action, now)
               ELSE Out2(posts, hp)
    IN [pool |-> [pool EXCEPT ![session_id] = out.posts],
        heap |-> out.heap,
        value |-> out.posts]

\* action_executor.clear_all_posts: _POSTS_BY_SESSION.clear().
clear_all_posts(pool) == EmptyPool

\* action_executor.get_posts: a new list of shallow copies; the copies refer
\* to the same likes / comments list objects as the pool's posts.
get_posts(pool, session_id) == pool[session_id]

\* What a list of PostItem shows: its posts with the lists they refer to.
View(posts, hp) ==
    [k \in DOMAIN posts |->
        [posts[k] EXCEPT !.likes = hp.lists[posts[k].likes],
                         !.comments = hp.lists[posts[k].comments]]]

\* What the pool shows, session by session.
AllView(pool, hp) == [sid \in Sessions |-> View(pool[sid], hp)]

\* ------------------------------------------------- run_event_workflow
\* thread_id = f"{session_id}:{agent}" as a string of tokens.
ThreadIdStr(session_id, agent) == <<session_id, ":">> \o agent

\* str.partition(":")[2]: what follows the first ":" (empty without one).
PartitionTail(str) ==
    LET colons == {k \in DOMAIN str : str[k] = ":"}
        first == CHOOSE k \in colons : \A j \in colons : k <= j
    IN IF colons = {} THEN <<>> ELSE SubSeq(str, first + 1, Len(str))

\* The actor id _apply_actions_node commits under.
ActorOf(thread_id) == PartitionTail(thread_id)

\* The agent ids an event can target, as strings of tokens.
EventAgents == {<<"a1">>, <<"a2">>}

RECURSIVE SeqsUpTo(_, _)
SeqsUpTo(S, n) ==
    IF n = 0 THEN {<<>>}
    ELSE LET shorter == SeqsUpTo(S, n - 1)
         IN shorter \cup {Append(q, x) : q \in shorter, x \in S}

\* The target_thread_ids a caller can pass: any enumeration, repeats included.
TargetLists ==
    {[k \in DOMAIN q |-> ThreadIdStr(SessionId, q[k])] :
        q \in SeqsUpTo(EventAgents, MaxTargets)}

\* A pool left by one earlier POST of agent 1.
SeedPooled ==
    apply_action(EmptyPool, EmptyHeap, SessionId, <<"a1">>,
                 ActionData("post", [content |-> "seed"]), 0)

\* runtime.infer_action, the decision procedure: exactly one structured
\* action for a target that was shown posts, naming a post of the snapshot
\* or a missing one.
infer_action(posts) ==
    {ActionData("post", [content |-> "hi"]),
     ActionData("noop", [reason |-> "quiet"]),
     ActionData("like", [target_post_id |-> MissingId])}
    \cup {ActionData("like", [target_post_id |-> posts[k].post_id]) : k \in DOMAIN posts}
    \cup {ActionData("comment", [target_post_id |-> posts[k].post_id, content |-> "re"]) :
            k \in DOMAIN posts}
    \cup {ActionData("repost", [target_post_id |-> posts[k].post_id, comment |-> ""]) :
            k \in DOMAIN posts}

Task(pc, write) == [pc |-> pc, write |-> write]

\* run_event_workflow: social_posts = get_posts(session_id), then invoke.
EventSnapshot ==
    /\ epc = "start"
    /\ social_posts' = get_posts(posts_by_session, SessionId)
    /\ elog' = Append(elog, [op |-> "snapshot",
                             view |-> View(posts_by_session[SessionId], heap)])
    /\ epc' = "fanout"
    /\ UNCHANGED <<posts_by_session, heap, target_thread_ids, ipc, sent_posts,
                   inferred_actions, apply_idx, event_posts>>
    /\ UNCHANGED <<graphVars, worldVars, schedVars, repoVars>>

\* _fanout_infer: no target goes straight to apply_actions; otherwise one
\* Send("infer_action") per target, each carrying state["social_posts"].
FanoutInfer ==
    /\ epc = "fanout"
    /\ IF target_thread_ids = <<>>
       THEN /\ epc' = "apply"
            /\ apply_idx' = 1
            /\ UNCHANGED <<ipc, sent_posts>>
       ELSE /\ epc' = "infer"
            /\ ipc' = [k \in DOMAIN target_thread_ids |-> Task("running", NonePayload)]
            /\ sent_posts' = [k \in DOMAIN target_thread_ids |-> social_posts]
            /\ UNCHANGED apply_idx
    /\ UNCHANGED <<posts_by_session, heap, target_thread_ids, social_posts,
                   inferred_actions, event_posts, elog>>
    /\ UNCHANGED <<graphVars, worldVars, schedVars, repoVars>>

\* Mutant of InferAction: the task applies its action as soon as it is
\* inferred.
InferAndApply(i) ==
    /\ epc = "infer"
    /\ ipc[i].pc = "running"
    /\ \E action \in infer_action(sent_posts[i]) :
        LET thread_id == target_thread_ids[i]
            done == apply_action(posts_by_session, heap, SessionId,
                                 ActorOf(thread_id), action, clock)
        IN /\ ipc' = [ipc EXCEPT ![i] = Task("done", NonePayload)]
           /\ posts_by_session' = done.pool
           /\ heap' = done.heap
           /\ event_posts' = done.value
           /\ elog' = Append(elog, [op |-> "apply", idx |-> i,
                                    thread_id |-> thread_id, action |-> action])
    /\ UNCHANGED <<epc, target_thread_ids, social_posts, sent_posts,
                   inferred_actions, apply_idx>>
    /\ UNCHANGED <<graphVars, worldVars, schedVars, repoVars>>

\* _infer_action_node of one Send: runtime.infer_action returns an action,
\* which becomes the task's write to inferred_actions, or raises.
InferAction(i) ==
    /\ epc = "infer"
    /\ ipc[i].pc = "running"
    /\ \/ \E action \in infer_action(sent_posts[i]) :
            ipc' = [ipc EXCEPT ![i] =
                        Task("done", [thread_id |-> target_thread_ids[i],
                                      action |-> action])]
       \/ ipc' = [ipc EXCEPT ![i] = Task("raised", NonePayload)]
    /\ UNCHANGED <<posts_by_session, heap, epc, target_thread_ids, social_posts,
                   sent_posts, inferred_actions, apply_idx, event_posts, elog>>
    /\ UNCHANGED <<graphVars, worldVars, schedVars, repoVars>>

\* The writes of the tasks that ended, in the order of their Sends
\* (inferred_actions: Annotated[list, operator.add]).
RECURSIVE Writes(_, _)
Writes(tasks, n) ==
    IF n = 0 THEN <<>>
    ELSE IF tasks[n].pc = "done" /\ tasks[n].write # NonePayload
    THEN Append(Writes(tasks, n - 1), tasks[n].write)
    ELSE Writes(tasks, n - 1)

\* Mutant of EventJoin: apply_actions starts once one task has ended.
EventJoinOnFirst ==
    /\ epc = "infer"
    /\ \E i \in DOMAIN ipc : ipc[i].pc = "done"
    /\ inferred_actions' = Writes(ipc, Len(ipc))
    /\ apply_idx' = 1
    /\ epc' = "apply"
    /\ UNCHANGED <<posts_by_session, heap, target_thread_ids, social_posts, ipc,
                   sent_posts, event_posts, elog>>
    /\ UNCHANGED <<graphVars, worldVars, schedVars, repoVars>>

\* The superstep of the infer_action tasks ends: a raised task makes
\* _event_workflow_app.invoke raise; otherwise, every task having ended, the
\* edge infer_action -> apply_actions is taken.
EventJoin ==
    /\ epc = "infer"
    /\ IF \E i \in DOMAIN ipc : ipc[i].pc = "raised"
       THEN /\ epc' = "raised"
            /\ UNCHANGED <<inferred_actions, apply_idx>>
       ELSE /\ \A i \in DOMAIN ipc : ipc[i].pc = "done"
            /\ inferred_actions' = Writes(ipc, Len(ipc))
            /\ apply_idx' = 1
            /\ epc' = "apply"
    /\ UNCHANGED <<posts_by_session, heap, target_thread_ids, social_posts, ipc,
                   sent_posts, event_posts, elog>>
    /\ UNCHANGED <<graphVars, worldVars, schedVars, repoVars>>

\* action_by_thread = {item["thread_id"]: item["action"] for item in ...}:
\* the last item of a thread id wins.
action_by_thread(items, thread_id) ==
    LET hits == {k \in DOMAIN items : items[k].thread_id = thread_id}
    IN IF hits = {} THEN NonePayload
       ELSE items[CHOOSE k \in hits : \A j \in hits : k >= j].action

\* _apply_actions_node: one turn of the loop over target_thread_ids.
ApplyNext ==
    /\ epc = "apply"
    /\ apply_idx <= Len(target_thread_ids)
    /\ LET thread_id == target_thread_ids[apply_idx]
           action == action_by_thread(inferred_actions, thread_id)
           done == apply_action(posts_by_session, heap, SessionId,
                                ActorOf(thread_id), action, clock)
       IN IF action = NonePayload
          THEN UNCHANGED <<posts_by_session, heap, event_posts, elog>>
          ELSE /\ posts_by_session' = done.pool
               /\ heap' = done.heap
               /\ event_posts' = done.value
               /\ elog' = Append(elog, [op |-> "apply", idx |-> apply_idx,
                                        thread_id |-> thread_id, action |-> action])
    /\ apply_idx' = apply_idx + 1
    /\ UNCHANGED <<epc, target_thread_ids, social_posts, ipc, sent_posts,
                   inferred_actions>>
    /\ UNCHANGED <<graphVars, worldVars, schedVars, repoVars>>

\* _apply_actions_node returns {"posts": posts}; run_event_workflow returns.
ApplyReturn ==
    /\ epc = "apply"
    /\ apply_idx > Len(target_thread_ids)
    /\ epc' = "done"
    /\ UNCHANGED <<posts_by_session, heap, target_thread_ids, social_posts, ipc,
                   sent_posts, inferred_actions, apply_idx, event_posts, elog>>
    /\ UNCHANGED <<graphVars, worldVars, schedVars, repoVars>>

InitEvent ==
    /\ graph = EmptyGraph
    /\ clock = 1
    /\ checkpoint = [a \in Agents |-> <<>>]
    /\ history = <<>>
    /\ IdleWorld /\ IdleSched /\ IdleRepo
    /\ \E seed \in {[pool |-> EmptyPool, heap |-> EmptyHeap], SeedPooled} :
        /\ posts_by_session = seed.pool
        /\ heap = seed.heap
    /\ epc = "start"
    /\ target_thread_ids \in TargetLists
    /\ social_posts = <<>>
    /\ ipc = <<>>
    /\ sent_posts = <<>>
    /\ inferred_actions = <<>>
    /\ apply_idx = 0
    /\ event_posts = <<>>
    /\ elog = <<>>

NextEvent ==
    \/ EventSnapshot
    \/ FanoutInfer
    \/ \E i \in DOMAIN ipc : InferAction(i)
    \/ EventJoin
    \/ ApplyNext
    \/ ApplyReturn

SpecEvent == InitEvent /\ [][NextEvent]_vars

\* ------------------------------------ SocialGraphRepository under calls
\* One like_post call of a caller: the result or the ValueError is logged.
LikePostCall ==
    /\ calls < MaxLikeCalls
    /\ \E agent \in Agents, target_post_id \in PostIds(graph, SessionId) \cup {MissingId} :
        LET done == like_post(graph, SessionId, agent, target_post_id, clock)
        IN /\ graph' = done.g
           /\ like_returns' = Append(like_returns,
                                     [agent |-> agent, post |-> target_post_id,
                                      raised |-> done.raised, created |-> done.value,
                                      at |-> clock])
    /\ calls' = calls + 1
    /\ UNCHANGED <<clock, checkpoint, history, last_call, posts_lock, callers>>
    /\ UNCHANGED <<worldVars, schedVars, eventVars>>

\* A second of wall-clock time passes (_now_iso has second resolution).
ClockTick ==
    /\ clock < MaxClock
    /\ clock' = clock + 1
    /\ UNCHANGED <<graph, checkpoint, history>>
    /\ UNCHANGED <<worldVars, schedVars, eventVars, repoVars>>

InitRepo ==
    /\ InitGraph
    /\ IdleWorld /\ IdleSched /\ IdleEvent /\ IdleRepo

NextRepo ==
    \/ LikePostCall
    \/ ClockTick

SpecRepo == InitRepo /\ [][NextRepo]_vars

\* --------------------------------------- the post pool under calls
MaxPoolCalls == 3

\* The post ids of one session's pool, and of every session's.
PoolIds(pool, session_id) ==
    {pool[session_id][k].post_id : k \in DOMAIN pool[session_id]}

AllPoolIds(pool) == UNION {PoolIds(pool, sid) : sid \in Sessions}

\* The actions a caller can hand to apply_action: like, comment and repost
\* name a post of some session or a post that does not exist.
PoolActions(pool) ==
    {ActionData("post", [content |-> "hi"])}
    \cup {ActionData("like", [target_post_id |-> t]) :
            t \in AllPoolIds(pool) \cup {MissingId}}
    \cup {ActionData("comment", [target_post_id |-> t, content |-> "re"]) :
            t \in AllPoolIds(pool) \cup {MissingId}}
    \cup {ActionData("repost", [target_post_id |-> t, comment |-> ""]) :
            t \in AllPoolIds(pool) \cup {MissingId}}

\* One apply_action call of a caller. apply_action has no raise statement:
\* it returns the session's posts whatever the action was.
ApplyActionCall ==
    /\ calls < MaxPoolCalls
    /\ \E session_id \in Sessions, actor_id \in EventAgents,
          action \in PoolActions(posts_by_session) :
        LET done == apply_action(posts_by_session, heap, session_id, actor_id,
                                 action, clock)
        IN /\ posts_by_session' = done.pool
           /\ heap' = done.heap
           /\ last_call' = [op |-> "apply_action", session_id |-> session_id,
                            actor_id |-> actor_id, action |-> action,
                            before |-> AllView(posts_by_session, heap),
                            raised |-> FALSE, value |-> View(done.value, done.heap)]
    /\ calls' = calls + 1
    /\ UNCHANGED <<epc, target_thread_ids, social_posts, ipc, sent_posts,
                   inferred_actions, apply_idx, event_posts, elog, like_returns,
                   posts_lock, callers>>
    /\ UNCHANGED <<graphVars, worldVars, schedVars>>

\* One get_posts call of a caller.
GetPostsCall ==
    /\ last_call.op # "get_posts"
    /\ \E session_id \in Sessions :
        last_call' = [op |-> "get_posts", session_id |-> session_id,
                      raised |-> FALSE,
                      value |-> View(get_posts(posts_by_session, session_id), heap)]
    /\ UNCHANGED <<calls, like_returns,
                   posts_lock, callers>>
    /\ UNCHANGED <<graphVars, worldVars, schedVars, eventVars>>

\* One clear_all_posts call of a caller.
ClearAllPostsCall ==
    /\ calls < MaxPoolCalls
    /\ posts_by_session' = clear_all_posts(posts_by_session)
    /\ last_call' = [op |-> "clear_all_posts",
                     before |-> AllView(posts_by_session, heap),
                     raised |-> FALSE]
    /\ calls' = calls + 1
    /\ UNCHANGED <<heap, epc, target_thread_ids, social_posts, ipc, sent_posts,
                   inferred_actions, apply_idx, event_posts, elog, like_returns,
                   posts_lock, callers>>
    /\ UNCHANGED <<graphVars, worldVars, schedVars>>

InitPool ==
    /\ graph = EmptyGraph
    /\ clock = 1
    /\ checkpoint = [a \in Agents |-> <<>>]
    /\ history = <<>>
    /\ IdleWorld /\ IdleSched /\ IdleRepo
    /\ \E seed \in {[pool |-> EmptyPool, heap |-> EmptyHeap], SeedPooled} :
        /\ posts_by_session = seed.pool
        /\ heap = seed.heap
    /\ epc = "idle"
    /\ target_thread_ids = <<>>
    /\ social_posts = <<>>
    /\ ipc = <<>>
    /\ sent_posts = <<>>
    /\ inferred_actions = <<>>
    /\ apply_idx = 0
    /\ event_posts = <<>>
    /\ elog = <<>>

NextPool ==
    \/ ApplyActionCall
    \/ GetPostsCall
    \/ ClearAllPostsCall

SpecPool == InitPool /\ [][NextPool]_vars

\* ------------------------------- apply_action under concurrent callers
MaxCallers == 2

\* The threads calling apply_action on the modelled session.
Callers == 1..MaxCallers

\* The actions of the concurrent callers: a post, or a like, a comment or a
\* repost of the post the pool starts with.
CallerActions ==
    LET seed == SeedPooled.pool[SessionId][1].post_id
    IN {ActionData("post", [content |-> "hi"]),
        ActionData("like", [target_post_id |-> seed]),
        ActionData("comment", [target_post_id |-> seed, content |-> "re"]),
        ActionData("repost", [target_post_id |-> seed, comment |-> ""])}

\* A thread enters apply_action(session_id, actor_id, action).
CallApplyAction(t) ==
    /\ callers[t].pc = "idle"
    /\ \E actor_id \in EventAgents, action \in CallerActions :
        callers' = [callers EXCEPT ![t] =
            [pc |-> "acquire", actor_id |-> actor_id, action |-> action,
             posts |-> <<>>]]
    /\ UNCHANGED <<calls, like_returns, last_call, posts_lock>>
    /\ UNCHANGED <<graphVars, worldVars, schedVars, eventVars>>

\* The lock taken whether or not another thread holds it.
AcquireWithoutLock(t) ==
    /\ callers[t].pc = "acquire"
    /\ posts_lock' = TRUE
    /\ callers' = [callers EXCEPT ![t].pc = "read"]
    /\ UNCHANGED <<calls, like_returns, last_call>>
    /\ UNCHANGED <<graphVars, worldVars, schedVars, eventVars>>

\* with _POSTS_LOCK: the thread waits until the lock is free and takes it.
AcquireLock(t) ==
    /\ callers[t].pc = "acquire"
    /\ ~posts_lock
    /\ posts_lock' = TRUE
    /\ callers' = [callers EXCEPT ![t].pc = "read"]
    /\ UNCHANGED <<calls, like_returns, last_call>>
    /\ UNCHANGED <<graphVars, worldVars, schedVars, eventVars>>

\* posts = _POSTS_BY_SESSION.setdefault(session_id, []) and the loop over
\* posts: the thread reads the items (the target's likes, comments,
\* repost_count).
ReadPosts(t) ==
    /\ callers[t].pc = "read"
    /\ callers' = [callers EXCEPT ![t].pc = "write",
                                  ![t].posts = posts_by_session[SessionId]]
    /\ UNCHANGED <<calls, like_returns, last_call, posts_lock>>
    /\ UNCHANGED <<graphVars, worldVars, schedVars, eventVars>>

\* What the thread's writes leave of the session's list: posts[idx] = the
\* copy made of the item it read, and posts.append(...) at the end of the
\* list as it is now.
WriteBack(current, read, computed) ==
    [k \in DOMAIN current |->
        IF k <= Len(read) /\ computed[k] # read[k] THEN computed[k]
        ELSE current[k]]
    \o SubSeq(computed, Len(read) + 1, Len(computed))

\* posts[idx] = item.model_copy(update=...) / posts.append(...), computed
\* from the items the thread read.
WritePosts(t) ==
    /\ callers[t].pc = "write"
    /\ LET read == callers[t].posts
           done == apply_action([posts_by_session EXCEPT ![SessionId] = read],
                                heap, SessionId, callers[t].actor_id,
                                callers[t].action, clock)
       IN /\ posts_by_session' =
                [posts_by_session EXCEPT ![SessionId] =
                    WriteBack(@, read, done.pool[SessionId])]
          /\ heap' = done.heap
    /\ callers' = [callers EXCEPT ![t].pc = "release"]
    /\ UNCHANGED <<epc, target_thread_ids, social_posts, ipc, sent_posts,
                   inferred_actions, apply_idx, event_posts, elog>>
    /\ UNCHANGED <<calls, like_returns, last_call, posts_lock>>
    /\ UNCHANGED <<graphVars, worldVars, schedVars>>

\* Leaving the with block releases the lock; the copies are returned.
ReleaseLock(t) ==
    /\ callers[t].pc = "release"
    /\ posts_lock' = FALSE
    /\ callers' = [callers EXCEPT ![t].pc = "done"]
    /\ UNCHANGED <<calls, like_returns, last_call>>
    /\ UNCHANGED <<graphVars, worldVars, schedVars, eventVars>>

InitLock ==
    /\ graph = EmptyGraph
    /\ clock = 1
    /\ checkpoint = [a \in Agents |-> <<>>]
    /\ history = <<>>
    /\ IdleWorld /\ IdleSched
    /\ posts_by_session = SeedPooled.pool
    /\ heap = SeedPooled.heap
    /\ epc = "idle"
    /\ target_thread_ids = <<>>
    /\ social_posts = <<>>
    /\ ipc = <<>>
    /\ sent_posts = <<>>
    /\ inferred_actions = <<>>
    /\ apply_idx = 0
    /\ event_posts = <<>>
    /\ elog = <<>>
    /\ calls = 0
    /\ like_returns = <<>>
    /\ last_call = NoCall
    /\ posts_lock = FALSE
    /\ callers = [t \in Callers |->
                    [pc |-> "idle", actor_id |-> <<"a1">>,
                     action |-> ActionData("noop", [reason |-> "idle"]),
                     posts |-> <<>>]]

NextLock ==
    \/ \E t \in Callers : CallApplyAction(t)
    \/ \E t \in Callers : AcquireLock(t)
    \/ \E t \in Callers : ReadPosts(t)
    \/ \E t \in Callers : WritePosts(t)
    \/ \E t \in Callers : ReleaseLock(t)

SpecLock == InitLock /\ [][NextLock]_vars

\* ------------------------------------------ the graph store under calls
MaxStoreCalls == 3

\* The ids the callers of the store use for entities and agents.
StoreAgents == {1, 2}

\* The entity_type values and names an event can give.
EntityTypes == {"player", "zombie"}
EntityNames == {"Alex", "Steve"}

MinecraftEntity(entity_id, entity_type, name) ==
    [entity_id |-> entity_id, entity_type |-> entity_type, name |-> name]

\* The events a game server can send for the modelled session.
EventRequests ==
    {[session_id |-> SessionId, timestamp |-> 1, world_time |-> 0,
      verb |-> "attack", details |-> "{}", subject |-> sub, object |-> obj] :
        sub \in {MinecraftEntity(e, t, n) :
                    e \in StoreAgents, t \in EntityTypes, n \in EntityNames},
        obj \in {NoObject, MinecraftEntity(1, "zombie", None),
                 MinecraftEntity(2, "zombie", "Zed")}}

\* One ingest_event_to_neo4j call.
IngestEventCall ==
    /\ calls < MaxStoreCalls
    /\ \E event \in EventRequests :
        LET done == ingest_event_to_neo4j(graph, event)
        IN /\ graph' = done.g
           /\ last_call' = [op |-> "ingest_event", event |-> event,
                            before |-> graph, raised |-> done.raised,
                            value |-> done.value]
    /\ calls' = calls + 1
    /\ UNCHANGED <<clock, checkpoint, history, like_returns,
                   posts_lock, callers>>
    /\ UNCHANGED <<worldVars, schedVars, eventVars>>

\* One SocialGraphRepository.create_post call.
CreatePostCall ==
    /\ calls < MaxStoreCalls
    /\ \E session_id \in Sessions, agent \in StoreAgents :
        LET done == create_post(graph, session_id, agent, "hi", clock)
        IN /\ graph' = done.g
           /\ last_call' = [op |-> "create_post", session_id |-> session_id,
                            agent |-> agent, before |-> graph,
                            raised |-> done.raised, value |-> done.value]
    /\ calls' = calls + 1
    /\ UNCHANGED <<clock, checkpoint, history, like_returns,
                   posts_lock, callers>>
    /\ UNCHANGED <<worldVars, schedVars, eventVars>>

\* The post ids of every session's SocialPost nodes.
AllPostIds(g) == {g.posts[i].post_id : i \in DOMAIN g.posts}

\* One SocialGraphRepository.create_comment call; the target is a post of
\* some session or a post that does not exist.
CreateCommentCall ==
    /\ calls < MaxStoreCalls
    /\ \E session_id \in Sessions, agent \in StoreAgents,
          target_post_id \in AllPostIds(graph) \cup {MissingId} :
        LET done == create_comment(graph, session_id, agent, target_post_id,
                                   "re", clock)
        IN /\ graph' = done.g
           /\ last_call' = [op |-> "create_comment", session_id |-> session_id,
                            agent |-> agent, target_post_id |-> target_post_id,
                            before |-> graph, raised |-> done.raised,
                            value |-> done.value]
    /\ calls' = calls + 1
    /\ UNCHANGED <<clock, checkpoint, history, like_returns,
                   posts_lock, callers>>
    /\ UNCHANGED <<worldVars, schedVars, eventVars>>

InitStore ==
    /\ graph = EmptyGraph
    /\ clock = 1
    /\ checkpoint = [a \in Agents |-> <<>>]
    /\ history = <<>>
    /\ IdleWorld /\ IdleSched /\ IdleEvent /\ IdleRepo

NextIngest ==
    \/ IngestEventCall
    \/ CreatePostCall
    \/ CreateCommentCall

SpecIngest == InitStore /\ [][NextIngest]_vars

\* One SocialGraphRepository.like_post call; the target is a post of some
\* session or a post that does not exist.
LikeCall ==
    /\ calls < MaxStoreCalls
    /\ \E session_id \in Sessions, agent \in StoreAgents,
          target_post_id \in AllPostIds(graph) \cup {MissingId} :
        LET done == like_post(graph, session_id, agent, target_post_id, clock)
        IN /\ graph' = done.g
           /\ last_call' = [op |-> "like_post", session_id |-> session_id,
                            agent |-> agent, target_post_id |-> target_post_id,
                            before |-> graph, raised |-> done.raised,
                            value |-> done.value]
    /\ calls' = calls + 1
    /\ UNCHANGED <<clock, checkpoint, history, like_returns,
                   posts_lock, callers>>
    /\ UNCHANGED <<worldVars, schedVars, eventVars>>

NextStore ==
    \/ CreatePostCall
    \/ CreateCommentCall
    \/ LikeCall

SpecStore == InitStore /\ [][NextStore]_vars

\* The same calls made by the callers of the modelled session (the other
\* session's activity is in the store already) while wall-clock time passes.
NextSocial ==
    \/ CreatePostCall /\ last_call'.session_id = SessionId
    \/ CreateCommentCall /\ last_call'.session_id = SessionId
    \/ LikeCall /\ last_call'.session_id = SessionId
    \/ ClockTick

\* The store holds the post another session made earlier.
InitSocial ==
    /\ graph = OtherGraph
    /\ clock = 1
    /\ checkpoint = [a \in Agents |-> <<>>]
    /\ history = <<>>
    /\ IdleWorld /\ IdleSched /\ IdleEvent /\ IdleRepo

SpecSocial == InitSocial /\ [][NextSocial]_vars

\* ---------------------------------- execute_action_node under one call
\* The dicts a tool call can carry as args; a missing key reads as None.
ArgDicts(g) ==
    {[action_type |-> t, content |-> c, target_post_id |-> p] :
        t \in ActionType \cup {"fly", None},
        c \in {"hi", " ", None},
        p \in PostIds(g, SessionId) \cup {NoneId, MissingId}}

\* Identifier-like fields a decision can add to its arguments.
IdFields ==
    {[session_id |-> OtherSession, agent_uuid |-> 2],
     [session_id |-> SessionId, agent_uuid |-> 3]}

WithIds(d, ids) ==
    [action_type |-> d.action_type, content |-> d.content,
     target_post_id |-> d.target_post_id,
     session_id |-> ids.session_id, agent_uuid |-> ids.agent_uuid]

\* The args values of a tool call: a dict, a JSON text, or another type.
RawArgs(g) ==
    {[kind |-> "dict", args |-> d] : d \in ArgDicts(g)}
    \cup {[kind |-> "dict", args |-> WithIds(d, ids)] :
            d \in ArgDicts(g), ids \in IdFields}
    \cup {JsonText("object", d) : d \in ArgDicts(g)}
    \cup {JsonText("other", NoArgs), JsonText("error", NoArgs), [kind |-> "none"]}

\* The message lists execute_action_node can be entered with.
ExecuteInputs(g) ==
    {<<>>, <<ToolMessage(Text("Success:", "NOOP action executed."))>>,
     <<AIMessage(<<>>)>>}
    \cup {<<AIMessage(<<raw>>)>> : raw \in RawArgs(g)}
    \cup {<<AIMessage(<<[kind |-> "dict", args |-> d[1]],
                        [kind |-> "dict", args |-> d[2]]>>)>> :
            d \in {x \in ArgDicts(g) \X ArgDicts(g) :
                    /\ x[1].action_type \in {"post", "like", "noop"}
                    /\ x[2].action_type \in {"post", "comment"}
                    /\ x[1].content = "hi" /\ x[2].content = "hi"
                    /\ x[1].target_post_id # NoneId
                    /\ x[2].target_post_id # NoneId}}

\* The same messages with identifier-like fields set in the arguments.
Twin(messages, ids) ==
    IF /\ messages # <<>>
       /\ messages[1].type = "ai"
       /\ messages[1].tool_calls # <<>>
       /\ messages[1].tool_calls[1].kind \in {"dict", "str"}
       /\ ParseArgs(messages[1].tool_calls[1]) # NotADict
    THEN <<AIMessage(<<[messages[1].tool_calls[1] EXCEPT
                            !.args = WithIds(@, ids)]>>)>>
    ELSE messages

\* One execute_action_node step of an agent, and what the same step gives
\* for the twin arguments.
ExecuteCall ==
    /\ last_call = NoCall
    /\ \E agent \in StoreAgents, messages \in ExecuteInputs(graph),
          ids \in IdFields, up \in BOOLEAN :
        LET done == execute_action_node(graph, SessionId, agent, messages, clock, up)
            twin == execute_action_node(graph, SessionId, agent,
                                        Twin(messages, ids), clock, up)
        IN /\ graph' = done.g
           /\ last_call' = [op |-> "execute_action_node", agent |-> agent,
                            messages |-> messages, up |-> up, before |-> graph,
                            raised |-> done.raised, message |-> done.message,
                            twin_messages |-> Twin(messages, ids), twin |-> twin]
    /\ UNCHANGED <<clock, checkpoint, history, calls, like_returns,
                   posts_lock, callers>>
    /\ UNCHANGED <<worldVars, schedVars, eventVars>>

InitExec ==
    /\ graph \in {EmptyGraph, SeedGraph}
    /\ clock = 1
    /\ checkpoint = [a \in Agents |-> <<>>]
    /\ history = <<>>
    /\ IdleWorld /\ IdleSched /\ IdleEvent /\ IdleRepo

NextExec == ExecuteCall

SpecExec == InitExec /\ [][NextExec]_vars

\* --------------------------- run_agent_social_cycle, cycle after cycle
\* runtime.run_agent_social_cycle on a thread whose checkpoint holds
\* messages: anima_app.invoke runs think, then execute_action when
\* should_continue says so; the text returned is that of the last
\* ToolMessage of final_state["messages"], the thread's whole history.
run_agent_social_cycle(g, session_id, agent, messages, reply, now, up) ==
    LET thought == think_node(messages, reply)
        executed == should_continue(thought) = "execute_action"
        done == execute_action_node(g, session_id, agent, thought, now, up)
        final == IF executed THEN Append(thought, done.message) ELSE thought
    IN IF reply.raises
       THEN [g |-> g, messages |-> messages, raised |-> TRUE,
             executed |-> FALSE, value |-> Text("", "")]
       ELSE [g |-> IF executed THEN done.g ELSE g, messages |-> final,
             raised |-> FALSE, executed |-> executed,
             value |-> LastToolText(final)]

\* One cycle of an agent's thread, as _run_single_agent starts it once per
\* tick.
CycleCall ==
    /\ calls < MaxStoreCalls
    /\ \E agent \in StoreAgents, reply \in ConcurrentReplies(graph, SessionId),
          up \in BOOLEAN :
        LET done == run_agent_social_cycle(graph, SessionId, agent,
                                           checkpoint[agent], reply, clock, up)
        IN /\ graph' = done.g
           /\ checkpoint' = [checkpoint EXCEPT ![agent] = done.messages]
           /\ last_call' = [op |-> "run_agent_social_cycle", agent |-> agent,
                            before |-> checkpoint[agent],
                            raised |-> done.raised, executed |-> done.executed,
                            value |-> done.value]
    /\ calls' = calls + 1
    /\ UNCHANGED <<clock, history, like_returns, posts_lock, callers>>
    /\ UNCHANGED <<worldVars, schedVars, eventVars>>

InitCycle ==
    /\ graph = SeedGraph
    /\ clock = 1
    /\ checkpoint = [a \in Agents |-> <<>>]
    /\ history = <<>>
    /\ IdleWorld /\ IdleSched /\ IdleEvent /\ IdleRepo

NextCycle == CycleCall

SpecCycle == InitCycle /\ [][NextCycle]_vars

\* ----------------------------------- perceptions between store calls
\* A store in which an event between two entities of the session was
\* ingested after the seed post.
EventGraph ==
    ingest_event_to_neo4j(SeedGraph,
        [session_id |-> SessionId, timestamp |-> 1, world_time |-> 0,
         verb |-> "attack", details |-> "{}",
         subject |-> MinecraftEntity(1, "player", "Alex"),
         object |-> MinecraftEntity(2, "zombie", "Zed")]).g

\* One PerceptionService.get_formatted_perception call, for an agent with
\* or without Entity node.
PerceptionCall ==
    /\ calls < MaxStoreCalls
    /\ \E session_id \in Sessions, agent \in Agents :
        LET done == execute_read(graph, session_id, agent)
        IN /\ graph' = done.g
           /\ last_call' = [op |-> "get_formatted_perception",
                            session_id |-> session_id, agent |-> agent,
                            before |-> graph, raised |-> FALSE,
                            value |-> done.value]
    /\ calls' = calls + 1
    /\ UNCHANGED <<clock, checkpoint, history, like_returns,
                   posts_lock, callers>>
    /\ UNCHANGED <<worldVars, schedVars, eventVars>>

InitPerceive ==
    /\ graph \in {OtherGraph, EventGraph}
    /\ clock = 1
    /\ checkpoint = [a \in Agents |-> <<>>]
    /\ history = <<>>
    /\ IdleWorld /\ IdleSched /\ IdleEvent /\ IdleRepo

NextPerceive ==
    \/ PerceptionCall
    \/ CreatePostCall /\ last_call'.session_id = SessionId
    \/ CreateCommentCall /\ last_call'.session_id = SessionId
    \/ LikeCall /\ last_call'.session_id = SessionId

SpecPerceive == InitPerceive /\ [][NextPerceive]_vars

\* ------------------------------- _format_comment_tree under one call
\* Longest comment list handed to one rendering.
MaxComments == 3

\* The root post of the rendering and the ids its rows can carry.
TreeRoot == 1
TreeIds == {TreeRoot, 2, 3}

\* The rows a comments list can hold: any id as comment_id (the root's
\* included), any id or None as parent_id.
TreeRows ==
    [comment_id : TreeIds, parent_id : TreeIds \cup {NoneId}, timestamp : 1..2]

\* One _format_comment_tree call on a comment list.
FormatTreeCall ==
    /\ last_call = NoCall
    /\ \E comments \in SeqsUpTo(TreeRows, MaxComments) :
        last_call' = [op |-> "_format_comment_tree", root_post_id |-> TreeRoot,
                      comments |-> comments,
                      lines |-> _format_comment_tree(TreeRoot, comments)]
    /\ UNCHANGED <<graph, clock, checkpoint, history, calls, like_returns,
                   posts_lock, callers>>
    /\ UNCHANGED <<worldVars, schedVars, eventVars>>

InitTree ==
    /\ graph = EmptyGraph
    /\ clock = 1
    /\ checkpoint = [a \in Agents |-> <<>>]
    /\ history = <<>>
    /\ IdleWorld /\ IdleSched /\ IdleEvent /\ IdleRepo

NextTree == FormatTreeCall

SpecTree == InitTree /\ [][NextTree]_vars

\* ------------------------------------- thread ids built and split
\* Longest session id and agent id, in characters.
MaxIdLen == 2

\* The characters of an id, ':' among them, and the non-empty ids
\* (the request schemas ask for min_length=1 and nothing else).
IdChars == {"s", "1", ":"}
IdStrings == SeqsUpTo(IdChars, MaxIdLen) \ {<<>>}

\* f"{session_id}:{agent_uuid}"
BuildThreadId(session_id, agent) == session_id \o <<":">> \o agent

\* thread_id.split(":", 1)[0]: what precedes the first ":" (the whole text
\* without one).
SplitHead(str) ==
    LET colons == {k \in DOMAIN str : str[k] = ":"}
        first == CHOOSE k \in colons : \A j \in colons : k <= j
    IN IF colons = {} THEN str ELSE SubSeq(str, 1, first - 1)

\* A thread state without session_id and agent_uuid (the empty text stands
\* for the missing key: both fail the test "isinstance(x, str) and x").
NoValues == [session_id |-> <<>>, agent_uuid |-> <<>>]

\* run_agent_social_cycle: the identifiers handed to anima_app.invoke, those
\* of the thread state or else the parts of the thread id.
CycleIds(values, thread_id) ==
    [session_id |-> IF values.session_id # <<>> THEN values.session_id
                    ELSE SplitHead(thread_id),
     agent_uuid |-> IF values.agent_uuid # <<>> THEN values.agent_uuid
                    ELSE PartitionTail(thread_id)]

\* The thread id of a (session, agent) pair is built, the agent's first and
\* second cycle run on it and an event action is committed for it.
ThreadIdCall ==
    /\ last_call = NoCall
    /\ \E session_id \in IdStrings, agent \in IdStrings :
        LET thread_id == BuildThreadId(session_id, agent)
            first == CycleIds(NoValues, thread_id)
        IN last_call' = [op |-> "thread_id", session_id |-> session_id,
                         agent |-> agent, thread_id |-> thread_id,
                         first |-> first,
                         second |-> CycleIds(first, thread_id),
                         actor_id |-> ActorOf(thread_id)]
    /\ UNCHANGED <<graph, clock, checkpoint, history, calls, like_returns,
                   posts_lock, callers>>
    /\ UNCHANGED <<worldVars, schedVars, eventVars>>

NextThread == ThreadIdCall

InitThread ==
    /\ graph = EmptyGraph
    /\ clock = 1
    /\ checkpoint = [a \in Agents |-> <<>>]
    /\ history = <<>>
    /\ IdleWorld /\ IdleSched /\ IdleEvent /\ IdleRepo

SpecThread == InitThread /\ [][NextThread]_vars

\* Position of an agent in the roster of the tick (0: not in it).
RosterPos(a) ==
    IF a \in Range(roster) THEN CHOOSE k \in DOMAIN roster : roster[k] = a ELSE 0

C7_TickSurvivesAgentFailure ==
    wpc \in {"done", "failed"} => completed_agents = roster

\* Position of an agent in the roster run_tick read (0: not in it).
TickPos(a) ==
    IF a \in Range(agent_uuids)
    THEN CHOOSE k \in DOMAIN agent_uuids : agent_uuids[k] = a ELSE 0

InProgress == {i \in DOMAIN apc : apc[i] \in {"think", "execute"}}

\* C2 as stated: run_tick issues the decision invocations one at a time, so
\* at no moment are the chains of two agents in progress together and the
\* graph writes of the tick happen in roster order.
C2_OneChainAtATime ==
    /\ Cardinality(InProgress) <= 1
    /\ \A m, n \in DOMAIN history :
        m < n => TickPos(history[m].agent) <= TickPos(history[n].agent)

\* C2 amended: run_tick starts the chains of all roster agents together and
\* joins them: every agent's chain runs once, its commit coming after its own
\* perception read and decision, and run_tick returns only after every chain
\* has ended.
C2_ChainsJoinedBeforeReturn ==
    /\ spc = "returned" => \A i \in DOMAIN apc : apc[i] = "done"
    /\ \A i \in DOMAIN apc :
        LET mine == {m \in DOMAIN history : history[m].agent = agent_uuids[i]}
        IN /\ Cardinality(mine) <= 1
           /\ apc[i] \in {"perceive", "think", "execute"} => mine = {}
           /\ apc[i] = "done" => results[i].agent_uuid = agent_uuids[i]

\* C2 witness: a returned tick in which two chains overlapped: a later roster
\* agent committed its write before an earlier roster agent did.
C2_Witness ==
    /\ spc = "returned"
    /\ \E m, n \in DOMAIN history :
        /\ m < n
        /\ history[m].wrote /\ history[n].wrote
        /\ TickPos(history[m].agent) > TickPos(history[n].agent)

\* C8: once the roster has been read, run_tick returns a complete summary:
\* one result per roster agent in roster order, success=false for an agent
\* whose read or decision cycle raised or returned an "Error:" text, and
\* succeeded + failed = total_agents = len(results).
C8_CompleteSummary ==
    spc = "returned" =>
        /\ response.total_agents = Len(agent_uuids)
        /\ Len(response.results) = Len(agent_uuids)
        /\ \A i \in DOMAIN agent_uuids :
            /\ response.results[i].agent_uuid = agent_uuids[i]
            /\ response.results[i].message[1] \in
                    {"Success:", "Error:", "Agent tick failed:"}
            /\ response.results[i].success <=>
                    response.results[i].message[1] = "Success:"
            /\ response.results[i].success =>
                    /\ checkpoint[agent_uuids[i]] # <<>>
                    /\ checkpoint[agent_uuids[i]][Len(checkpoint[agent_uuids[i]])]
                            = ToolMessage(response.results[i].message)
        /\ response.succeeded =
                Cardinality({i \in DOMAIN agent_uuids : response.results[i].success})
        /\ response.succeeded + response.failed = response.total_agents

\* C8 witness: a returned summary over three agents or more that holds a
\* success, an "Error:" text and a raised cycle, the first result a failure.
C8_Witness ==
    /\ spc = "returned"
    /\ Len(agent_uuids) >= 3
    /\ ~response.results[1].success
    /\ \E i, j, k \in DOMAIN agent_uuids :
        /\ response.results[i].success
        /\ response.results[j].message[1] = "Error:"
        /\ response.results[k].message[1] = "Agent tick failed:"

\* C9: when the session has no agent, the tick reads no perception, invokes
\* no decision and writes nothing, and run_tick returns total_agents = 0,
\* succeeded = 0, failed = 0, results = [].
C9_EmptyRosterNoWork ==
    (/\ spc = "returned"
     /\ \A i \in DOMAIN graph.entities : graph.entities[i].session_id # SessionId) =>
        /\ response = [returned |-> TRUE, total_agents |-> 0, succeeded |-> 0,
                       failed |-> 0, results |-> <<>>]
        /\ apc = <<>>
        /\ history = <<>>
        /\ \A a \in Agents : checkpoint[a] = <<>>
        /\ graph \in {EmptyGraph, OtherGraph}

\* C9 witness: run_tick has returned for a session without agents while the
\* store holds nodes of another session.
C9_Witness ==
    /\ spc = "returned"
    /\ agent_uuids = <<>>
    /\ graph = OtherGraph

\* The entries of elog that record an applied action.
Applied == {k \in DOMAIN elog : elog[k].op = "apply"}

\* What the pool of the event's session shows now.
PoolView == View(posts_by_session[SessionId], heap)

\* C3: in run_event_workflow the actions are applied one after another in
\* the order of target_thread_ids, whatever the order in which the
\* decisions completed: each applied action belongs to the position it is
\* applied for, positions are applied in ascending order, the action of a
\* thread id listed once is the one its decision returned, and when the
\* workflow returns every position has been applied.
C3_AppliedInTargetOrder ==
    /\ \A k \in Applied :
        /\ elog[k].idx \in DOMAIN target_thread_ids
        /\ elog[k].thread_id = target_thread_ids[elog[k].idx]
        /\ \A j \in Applied : j < k => elog[j].idx < elog[k].idx
        /\ ({n \in DOMAIN target_thread_ids :
                target_thread_ids[n] = elog[k].thread_id} = {elog[k].idx}
            /\ elog[k].idx \in DOMAIN ipc)
           => ipc[elog[k].idx].write = [thread_id |-> elog[k].thread_id,
                                       action |-> elog[k].action]
    /\ epc = "done" => {elog[k].idx : k \in Applied} = DOMAIN target_thread_ids

\* The workflow returned after applying three targets' actions, the
\* decisions of two different agents among them, and the pool changed.
C3_Witness ==
    /\ epc = "done"
    /\ Len(target_thread_ids) = 3
    /\ Cardinality(Applied) = 3
    /\ target_thread_ids[1] # target_thread_ids[2]
    /\ elog[2].action.type = "post"
    /\ elog[3].action.type = "like"
    /\ PoolView # elog[1].view

\* C4: no action of the event is applied before the decisions of all
\* targets have completed: once something is applied every infer_action
\* task has ended with its result, and until the join the pool shows what
\* it showed when the workflow read it.
C4_JoinedBeforeFirstWrite ==
    /\ Applied # {} => \A i \in DOMAIN ipc : ipc[i].pc = "done"
    /\ epc \in {"fanout", "infer", "raised"} => PoolView = elog[1].view

\* The first of two or more targets' actions has just changed the pool.
C4_Witness ==
    /\ epc = "apply"
    /\ Len(target_thread_ids) >= 2
    /\ apply_idx = 2
    /\ Cardinality(Applied) = 1
    /\ PoolView # elog[1].view

\* C5: every target's decision receives the same social_posts snapshot,
\* read once before any decision; at every later moment of the workflow it
\* still shows what the pool showed when it was read, whatever has been
\* applied since.
C5_OneSnapshotForEveryTarget ==
    elog # <<>> =>
        /\ View(social_posts, heap) = elog[1].view
        /\ \A i \in DOMAIN sent_posts :
            /\ sent_posts[i] = social_posts
            /\ View(sent_posts[i], heap) = elog[1].view

\* Two targets were shown a snapshot with a post, the workflow returned, and
\* the pool's post has since received a like the snapshot does not show.
C5_Witness ==
    /\ epc = "done"
    /\ Len(sent_posts) >= 2
    /\ social_posts # <<>>
    /\ PoolView[1].likes # <<>>
    /\ View(social_posts, heap)[1].likes = <<>>

\* C6: when the decision call of one target raises, the workflow still
\* completes and the actions of all targets whose decision returned are
\* applied.
C6_FailureOfOneTargetIsolated ==
    (epc \in {"done", "raised"} /\ \E i \in DOMAIN ipc : ipc[i].pc = "raised")
        => /\ epc = "done"
           /\ \A j \in DOMAIN ipc :
                ipc[j].pc = "done" => \E k \in Applied : elog[k].idx = j

\* The calls of like_returns that did not raise, for one actor and post.
LikeCalls(agent, post) ==
    {k \in DOMAIN like_returns :
        /\ like_returns[k].agent = agent
        /\ like_returns[k].post = post
        /\ ~like_returns[k].raised}

\* C10: like_post is idempotent: after any number of calls by one actor on
\* one post exactly one LIKED edge exists between them, the first call
\* returns true and every later call returns false, whatever the time
\* between the calls.
C10_LikeIdempotent ==
    \A agent \in Agents, post \in PostIds(graph, SessionId) :
        \A k \in LikeCalls(agent, post) :
            /\ Cardinality({e \in graph.liked :
                    /\ graph.entities[e.actor].entity_id = agent
                    /\ graph.posts[e.post].post_id = post}) = 1
            /\ like_returns[k].created
                = (\A j \in LikeCalls(agent, post) : k <= j)

\* What every session's pool shows now.
PoolNow == AllView(posts_by_session, heap)

\* The last call was apply_action with an action of the given type.
Applying(type) == last_call.op = "apply_action" /\ last_call.action.type = type

\* The post ids a session's pool showed before the last call.
IdsBefore(session_id) ==
    {last_call.before[session_id][k].post_id :
        k \in DOMAIN last_call.before[session_id]}

\* The last call was a LIKE by an actor the target's likes already held.
RepeatedLike ==
    /\ Applying("like")
    /\ \E k \in DOMAIN last_call.before[last_call.session_id] :
        LET item == last_call.before[last_call.session_id][k]
        IN /\ item.post_id = last_call.action.like.target_post_id
           /\ \E n \in DOMAIN item.likes : item.likes[n].user_id = last_call.actor_id

\* C11: after any sequence of actions a post's likes hold at most one entry
\* per user_id, and a repeated LIKE by the same actor on the same post
\* leaves the pool as it was.
C11_OneLikePerUser ==
    /\ \A sid \in Sessions : \A k \in DOMAIN PoolNow[sid] :
        \A m, n \in DOMAIN PoolNow[sid][k].likes :
            PoolNow[sid][k].likes[m].user_id = PoolNow[sid][k].likes[n].user_id
                => m = n
    /\ RepeatedLike => PoolNow = last_call.before

\* A LIKE was just repeated on a post that another user has liked too.
C11_Witness ==
    /\ RepeatedLike
    /\ \E k \in DOMAIN PoolNow[last_call.session_id] :
        /\ PoolNow[last_call.session_id][k].post_id
              = last_call.action.like.target_post_id
        /\ Len(PoolNow[last_call.session_id][k].likes) = 2

\* The last call named a post that its session's pool did not hold.
TargetMissing ==
    /\ last_call.op = "apply_action"
    /\ last_call.action.type \in {"like", "comment", "repost"}
    /\ TargetOf(last_call.action) \notin IdsBefore(last_call.session_id)

\* C14: apply_action(s, ...) and get_posts(s) read and change the pool of s
\* only, and a like, comment or repost whose target exists only in another
\* session changes nothing in either session.
C14_SessionConfined ==
    /\ last_call.op = "apply_action" =>
        /\ \A sid \in Sessions \ {last_call.session_id} :
                PoolNow[sid] = last_call.before[sid]
        /\ last_call.value = PoolNow[last_call.session_id]
        /\ TargetMissing => PoolNow = last_call.before
    /\ last_call.op = "get_posts" =>
        last_call.value = PoolNow[last_call.session_id]

\* A like was just issued in one session for a post only the other holds.
C14_Witness ==
    /\ TargetMissing
    /\ Applying("like")
    /\ PoolNow[last_call.session_id] # <<>>
    /\ \E sid \in Sessions \ {last_call.session_id} :
        TargetOf(last_call.action) \in IdsBefore(sid)

\* C15: a repost whose target_post_id names no post of the session is
\* reported to the caller as a not-found error.
C15_RepostOfMissingTargetRaises ==
    (Applying("repost") /\ TargetMissing) => last_call.raised

\* C16: a repost whose target_post_id names no post of the session leaves
\* the store unchanged: no post appended, no repost_count modified.
C16_RepostOfMissingTargetNoChange ==
    (Applying("repost") /\ TargetMissing) => PoolNow = last_call.before

\* A repost just named a missing post while the session held posts.
C16_Witness ==
    /\ Applying("repost")
    /\ TargetMissing
    /\ PoolNow[last_call.session_id] # <<>>

\* The Entity nodes of one (session_id, entity_id) key.
EntitiesOf(session_id, entity_id) == EntityRows(graph, session_id, entity_id)

\* C12: after any sequence of event ingests, create_post and create_comment
\* calls there is at most one Entity node per (session_id, entity_id),
\* whatever entity_type values were given to the entity_id.
C12_OneEntityPerKey ==
    \A sid \in Sessions, e \in StoreAgents :
        Cardinality(EntitiesOf(sid, e)) <= 1

\* C13: after an ingest that names an entity already in the graph, exactly
\* one Entity node carries its key and its name is the one this ingest wrote.
C13_LatestNameOnOneEntity ==
    (/\ last_call.op = "ingest_event"
     /\ last_call.event.object = NoObject
     /\ EntityRows(last_call.before, last_call.event.session_id,
                   last_call.event.subject.entity_id) # {})
    => /\ Cardinality(EntitiesOf(last_call.event.session_id,
                                 last_call.event.subject.entity_id)) = 1
       /\ \A i \in EntitiesOf(last_call.event.session_id,
                              last_call.event.subject.entity_id) :
            graph.entities[i].name
                = _format_entity_display_name(last_call.event.subject.name,
                                              last_call.event.subject.entity_id)

\* The last call named a post that the given session did not hold.
NoSuchPost ==
    last_call.target_post_id \notin PostIds(last_call.before, last_call.session_id)

\* The last call's actor had no Entity node in the given session.
NoSuchActor ==
    EntityRows(last_call.before, last_call.session_id, last_call.agent) = {}

\* C17: create_comment whose target names no SocialPost of the session
\* fails with the not-found error and creates nothing: no comment node, no
\* author Entity, no POSTED or REPLIED_TO edge; and it fails only then.
C17_CommentOnMissingTargetAllOrNothing ==
    last_call.op = "create_comment" =>
        /\ last_call.raised = NoSuchPost
        /\ NoSuchPost => graph = last_call.before

\* A comment by an agent without Entity node just named a post that only
\* the other session holds.
C17_Witness ==
    /\ last_call.op = "create_comment"
    /\ NoSuchPost
    /\ NoSuchActor
    /\ last_call.target_post_id \in AllPostIds(graph)

\* C18: like_post fails with the not-found error when the actor Entity or
\* the target post is absent from the session, and only then; in that case
\* it creates no LIKED edge and no node.
C18_LikeOfMissingActorOrTargetFails ==
    last_call.op = "like_post" =>
        /\ last_call.raised = (NoSuchPost \/ NoSuchActor)
        /\ (NoSuchPost \/ NoSuchActor) => graph = last_call.before

\* A like by an agent without Entity node just named a post its session
\* holds.
C18_Witness ==
    /\ last_call.op = "like_post"
    /\ NoSuchActor
    /\ ~NoSuchPost

\* The arguments of the last execute_action_node step ({} read as NoArgs).
LastArgs == ParseArgs(last_call.messages[1].tool_calls[1])

\* The last step was given a tool call.
HadToolCall ==
    /\ last_call.op = "execute_action_node"
    /\ last_call.messages # <<>>
    /\ last_call.messages[1].type = "ai"
    /\ last_call.messages[1].tool_calls # <<>>

\* The arguments pass the closed schema: a known action type with the
\* fields it requires.
WellFormedArgs(args) ==
    /\ args # NotADict
    /\ \/ args.action_type = "post" /\ NonBlankStr(args.content)
       \/ args.action_type = "like" /\ NonBlankId(args.target_post_id)
       \/ /\ args.action_type = "comment"
          /\ NonBlankId(args.target_post_id)
          /\ NonBlankStr(args.content)
       \/ args.action_type = "repost" /\ NonBlankId(args.target_post_id)
       \/ args.action_type = "noop"

\* C19: when the decision's action fails validation (unknown action_type,
\* a required field missing or blank, unparsable or missing arguments) the
\* step mutates nothing in the graph and completes without raising.
C19_InvalidActionIsNoOp ==
    (HadToolCall /\ ~WellFormedArgs(LastArgs))
        => /\ ~last_call.raised
           /\ graph = last_call.before

\* C20: the session and the agent an action is committed under come from
\* the state only: the step gives the same graph and the same result for
\* arguments that differ in identifier-like fields alone, every node it
\* adds belongs to the state's session and every post it adds is authored
\* by the state's agent.
C20_IdentifiersFromStateOnly ==
    last_call.op = "execute_action_node" =>
        /\ last_call.twin.g = graph
        /\ last_call.twin.message = last_call.message
        /\ \A i \in DOMAIN graph.entities \ DOMAIN last_call.before.entities :
            /\ graph.entities[i].session_id = SessionId
            /\ graph.entities[i].entity_id = last_call.agent
        /\ \A p \in DOMAIN graph.posts \ DOMAIN last_call.before.posts :
            /\ graph.posts[p].session_id = SessionId
            /\ \E a \in DOMAIN graph.entities :
                /\ <<a, p>> \in graph.posted
                /\ graph.entities[a].entity_id = last_call.agent
                /\ graph.entities[a].session_id = SessionId
        /\ \A e \in graph.liked \ last_call.before.liked :
            /\ graph.entities[e.actor].entity_id = last_call.agent
            /\ graph.entities[e.actor].session_id = SessionId

\* A step whose arguments named another session and another agent has
\* committed a post.
C20_Witness ==
    /\ HadToolCall
    /\ last_call.messages[1].tool_calls[1].kind = "dict"
    /\ "session_id" \in DOMAIN LastArgs
    /\ LastArgs.session_id = OtherSession
    /\ LastArgs.agent_uuid # last_call.agent
    /\ Len(graph.posts) = Len(last_call.before.posts) + 1
    /\ last_call.twin_messages # last_call.messages

\* The orders a query can return the rows of a collect() in.
Orderings(S) == {s \in [1..Cardinality(S) -> S] : Range(s) = S}

\* The nesting depth a rendered line shows: one level per prefix unit.
Nesting(line) == Len(line.prefix) + 1

\* The lines of one rendering obey the tree: every row's comment is emitted,
\* at its depth, after the line of the comment it replies to and below it,
\* and the replies to one parent come in ascending timestamp order.
RendersTree(root_post_id, comments, lines) ==
    /\ \A r \in Range(comments) :
        /\ \E i \in DOMAIN lines : lines[i].comment_id = r.comment_id
        /\ \A i \in DOMAIN lines : lines[i].comment_id = r.comment_id =>
            /\ Nesting(lines[i]) = r.depth
            /\ r.parent_id = root_post_id => Nesting(lines[i]) = 1
            /\ r.parent_id # root_post_id =>
                \E j \in 1..(i - 1) :
                    /\ lines[j].comment_id = r.parent_id
                    /\ Nesting(lines[j]) = r.depth - 1
                    /\ \A m \in (j + 1)..i : Nesting(lines[m]) >= r.depth
    /\ \A i, j \in DOMAIN lines : \A ri, rj \in Range(comments) :
        (/\ i < j
         /\ lines[i].comment_id = ri.comment_id
         /\ lines[j].comment_id = rj.comment_id
         /\ ri.parent_id = rj.parent_id) => ri.timestamp <= rj.timestamp

\* C21: in the rendered timeline no comment is emitted before the comment
\* it replies to, a reply to the root is nested at depth 1 and a reply to a
\* comment one level below that comment, and the replies to one parent
\* appear in ascending timestamp order, whatever order the query returned
\* the comment rows in.
C21_CommentTreeRendered ==
    \A session_id \in Sessions :
        LET roots == TimelineRows(graph, session_id)
        IN \A k \in DOMAIN roots :
            \A comments \in Orderings(CommentsUnder(graph, session_id, roots[k])) :
                RendersTree(graph.posts[roots[k]].post_id, comments,
                            _format_comment_tree(graph.posts[roots[k]].post_id,
                                                 comments))

\* A root post R holds a comment A and A holds a reply B, and the rendering
\* of R's comments shows A and B.
C21_Witness ==
    \E r, a, b \in DOMAIN graph.posts :
        /\ graph.posts[r].type = "ORIGINAL"
        /\ <<a, r>> \in graph.replied
        /\ <<b, a>> \in graph.replied
        /\ \E comments \in Orderings(CommentsUnder(graph, graph.posts[r].session_id, r)) :
            LET lines == _format_comment_tree(graph.posts[r].post_id, comments)
            IN {graph.posts[a].post_id, graph.posts[b].post_id}
                    \subseteq {lines[i].comment_id : i \in DOMAIN lines}

\* What run_tick records for an agent whose store call could not reach
\* Neo4j: the except branch of _run_single_agent for the perception read,
\* the error text of execute_action_node for create_post (which raises on
\* nothing else).
StoreFailure(result) ==
    \/ result.message = Text("Agent tick failed:", "ServiceUnavailable")
    \/ result.message = Text("Error:", "POST execution failed")

\* C22: a GraphStore connectivity failure during a tick is fatal for the
\* whole tick: run_tick returns no summary that records it as the failure
\* of one agent next to the results of the others.
C22_StoreFailureIsFatal ==
    response.returned =>
        \A i \in DOMAIN response.results : ~StoreFailure(response.results[i])

\* register_agent's test for a registered persona: the thread holds a
\* SystemMessage (the rendered profile).
has_system_prompt(messages) ==
    \E k \in DOMAIN messages : messages[k].type = "system"

\* C23: an agent whose thread holds no registered persona has its step
\* failed: the decision is not invoked for it (its thread gets no
\* AIMessage), nothing is committed for it and its result is a failure.
C23_NoPersonaFailsStep ==
    \A i \in DOMAIN apc :
        LET a == agent_uuids[i]
        IN (apc[i] = "done" /\ ~has_system_prompt(checkpoint[a])) =>
            /\ ~results[i].success
            /\ \A k \in DOMAIN checkpoint[a] : checkpoint[a][k].type # "ai"
            /\ \A k \in DOMAIN history :
                    ~(history[k].agent = a /\ history[k].wrote)

\* The SocialPost nodes of a session that an Entity of the session authored.
AuthoredPosts(g, session_id) ==
    {i \in DOMAIN g.posts :
        /\ g.posts[i].session_id = session_id
        /\ \E a \in DOMAIN g.entities :
            g.entities[a].session_id = session_id /\ <<a, i>> \in g.posted}

\* The LIKED edges on the posts of a session.
LikesOf(g, session_id) ==
    {e \in g.liked : g.posts[e.post].session_id = session_id}

\* C24: the feed of a session holds exactly one item per authored post, per
\* authored comment and per like edge of the session and nothing else, in
\* descending order of timestamp and, within one timestamp, of activity_id;
\* total is the number of items.
C24_FeedOfSession ==
    \A session_id \in Sessions :
        LET feed == list_session_social_dynamics(graph, session_id)
            items == feed.items
            Count(type, actor, post) ==
                Cardinality({k \in DOMAIN items :
                    /\ items[k].activity_type = type
                    /\ items[k].actor_id = actor
                    /\ items[k].post_id = post})
        IN /\ feed.total = Len(items)
           /\ \A i \in AuthoredPosts(graph, session_id) :
                \E a \in DOMAIN graph.entities :
                    /\ <<a, i>> \in graph.posted
                    /\ Count(IF graph.posts[i].type = "COMMENT" THEN "comment"
                             ELSE "post",
                             graph.entities[a].entity_id,
                             graph.posts[i].post_id) = 1
           /\ \A e \in LikesOf(graph, session_id) :
                Count("like", graph.entities[e.actor].entity_id,
                      graph.posts[e.post].post_id) = 1
           /\ Len(items) = Cardinality(AuthoredPosts(graph, session_id))
                            + Cardinality(LikesOf(graph, session_id))
           /\ \A k \in DOMAIN items :
                items[k].post_id \in PostIds(graph, session_id)
           /\ \A k \in 1..(Len(items) - 1) :
                \/ items[k].timestamp > items[k + 1].timestamp
                \/ /\ items[k].timestamp = items[k + 1].timestamp
                   /\ StrLess(items[k + 1].activity_id, items[k].activity_id)

\* The feed of the session holds a post, a comment and a like while the
\* other session holds activity of its own.
C24_Witness ==
    LET items == list_session_social_dynamics(graph, SessionId).items
    IN /\ {items[k].activity_type : k \in DOMAIN items} = {"post", "comment", "like"}
       /\ AuthoredPosts(graph, OtherSession) # {}

\* The agents whose perception the tick has read, in the order of the reads.
RECURSIVE PerceivedBy(_)
PerceivedBy(log) ==
    IF log = <<>> THEN <<>>
    ELSE IF log[1].op = "perceive"
    THEN <<log[1].agent>> \o PerceivedBy(Tail(log))
    ELSE PerceivedBy(Tail(log))

\* The WorldState between two node runs, and inside run_next_agent_node
\* where the popped agent is in neither list.
QueuesPartitionRoster ==
    /\ wpc \in {"node", "route", "done"} =>
            completed_agents \o pending_agents = roster
    /\ wpc \in {"perceive", "think", "execute", "sleep"} =>
            completed_agents \o <<agent_uuid>> \o pending_agents = roster

\* The tick at DONE: the queue is empty, the completed list is the roster
\* and every agent was processed once, in roster order.
DoneWithRoster ==
    wpc = "done" =>
        /\ pending_agents = <<>>
        /\ completed_agents = roster
        /\ PerceivedBy(history) = roster

C26_ClosedSetSupported ==
    (HadToolCall /\ WellFormedArgs(LastArgs)) =>
        last_call.message # ToolMessage(Text("Error:", "Unsupported action_type."))

\* The graph one repository call of the given action leaves: create_post,
\* like_post or create_comment by the state's agent in the state's session.
AfterOneCall(g, agent, args, now) ==
    IF args.action_type = "post"
    THEN create_post(g, SessionId, agent, args.content, now).g
    ELSE IF args.action_type = "like"
    THEN like_post(g, SessionId, agent, args.target_post_id, now).g
    ELSE IF args.action_type = "comment"
    THEN create_comment(g, SessionId, agent, args.target_post_id,
                        args.content, now).g
    ELSE g

\* C27: one execute_action_node step (the only one of a decision cycle)
\* makes at most one GraphStore mutation: whatever the number of tool calls
\* of the reply, the graph after the step is the graph one repository call
\* of the first well-formed POST, LIKE or COMMENT leaves, and the graph
\* before when the action is NOOP, rejected or absent.
C27_AtMostOneMutation ==
    last_call.op = "execute_action_node" =>
        IF HadToolCall /\ WellFormedArgs(LastArgs) /\ last_call.up
        THEN graph = AfterOneCall(last_call.before, last_call.agent, LastArgs, clock)
        ELSE graph = last_call.before

\* The reply carried two well-formed posts and the step added one post.
C27_Witness ==
    /\ HadToolCall
    /\ Len(last_call.messages[1].tool_calls) = 2
    /\ LastArgs.action_type = "post"
    /\ last_call.messages[1].tool_calls[2].args.action_type = "post"
    /\ Len(graph.posts) = Len(last_call.before.posts) + 1

\* The pool after the callers' actions were applied one after the other in
\* the given order, the first k of them.
RECURSIVE Replay(_, _)
Replay(order, k) ==
    IF k = 0 THEN SeedPooled
    ELSE LET prev == Replay(order, k - 1)
             c == callers[order[k]]
         IN apply_action(prev.pool, prev.heap, SessionId, c.actor_id, c.action, clock)

\* The callers that made an action of the given type.
CallersOf(type) == {t \in Callers : callers[t].action.type = type}

\* C28: concurrent apply_action calls on one session are atomic and lose no
\* update: once all have returned, the pool is what applying the actions
\* one after the other in some order gives; k reposts of the first post
\* raised its repost_count by k and appended k repost entries, every POST
\* is in the pool, and no actor has two likes on the post.
C28_ConcurrentCallsAtomic ==
    (\A t \in Callers : callers[t].pc = "done") =>
        LET posts == View(posts_by_session[SessionId], heap)
            seed == View(SeedPooled.pool[SessionId], SeedPooled.heap)
            k == Cardinality(CallersOf("repost"))
        IN /\ \E order \in Orderings(Callers) :
                LET seq == Replay(order, MaxCallers)
                IN AllView(posts_by_session, heap) = AllView(seq.pool, seq.heap)
           /\ posts[1].repost_count = seed[1].repost_count + k
           /\ Cardinality({i \in DOMAIN posts :
                    posts[i].repost_of_post_id = seed[1].post_id}) = k
           /\ Len(posts) = Len(seed) + Cardinality(CallersOf("post")) + k
           /\ \A a \in EventAgents :
                Cardinality({j \in DOMAIN posts[1].likes :
                                posts[1].likes[j].user_id = a})
                    = IF \E t \in CallersOf("like") : callers[t].actor_id = a
                      THEN 1 ELSE 0

\* Every caller has returned from a repost of the first post.
C28_Witness ==
    /\ \A t \in Callers : callers[t].pc = "done"
    /\ CallersOf("repost") = Callers
    /\ View(posts_by_session[SessionId], heap)[1].repost_count = MaxCallers

\* a is the beginning of b.
IsPrefix(a, b) == Len(a) <= Len(b) /\ SubSeq(b, 1, Len(a)) = a

\* C29: an apply_action call keeps every post of every session's pool at
\* its position with its post_id, author_id, content and created_at, and
\* its likes, comments and repost_count only grow (so after any sequence
\* of apply_action calls); the pool is emptied by clear_all_posts alone.
C29_PoolOnlyGrows ==
    last_call.op = "apply_action" =>
        \A sid \in Sessions :
            LET old == last_call.before[sid]
                new == View(posts_by_session[sid], heap)
            IN /\ Len(old) <= Len(new)
               /\ \A k \in DOMAIN old :
                    /\ new[k].post_id = old[k].post_id
                    /\ new[k].author_id = old[k].author_id
                    /\ new[k].content = old[k].content
                    /\ new[k].created_at = old[k].created_at
                    /\ IsPrefix(old[k].likes, new[k].likes)
                    /\ IsPrefix(old[k].comments, new[k].comments)
                    /\ new[k].repost_count >= old[k].repost_count

\* A comment was just added to a post that already held a comment.
C29_Witness ==
    /\ last_call.op = "apply_action"
    /\ last_call.action.type = "comment"
    /\ \E k \in DOMAIN last_call.before[last_call.session_id] :
        /\ Len(last_call.before[last_call.session_id][k].comments) = 1
        /\ Len(View(posts_by_session[last_call.session_id], heap)[k].comments) = 2

\* The ORIGINAL posts a node reaches along REPLIED_TO edges.
RootsOf(g, i) ==
    {r \in DOMAIN g.posts :
        /\ g.posts[r].type = "ORIGINAL"
        /\ \E d \in 1..Len(g.posts) : i \in NodesAt(g, r, d)}

\* C30: every COMMENT node has exactly one REPLIED_TO edge, to a SocialPost
\* of its own session created before it (nodes are numbered in the order
\* of their creation); an ORIGINAL post has none; no node reaches itself
\* along REPLIED_TO, and every comment reaches exactly one ORIGINAL root.
C30_RepliesFormForest ==
    \A i \in DOMAIN graph.posts :
        LET out == {e \in graph.replied : e[1] = i}
        IN /\ graph.posts[i].type = "ORIGINAL" => out = {}
           /\ graph.posts[i].type = "COMMENT" =>
                /\ Cardinality(out) = 1
                /\ \A e \in out :
                    /\ e[2] < i
                    /\ graph.posts[e[2]].session_id = graph.posts[i].session_id
                /\ Cardinality(RootsOf(graph, i)) = 1
           /\ \A d \in 1..Len(graph.posts) : i \notin NodesAt(graph, i, d)

\* create_comment has just created a comment on a comment on an ORIGINAL
\* post.
C30_Witness ==
    /\ last_call.op = "create_comment"
    /\ ~last_call.raised
    /\ \E a, b \in DOMAIN graph.posts :
        /\ b = Len(graph.posts)
        /\ <<b, a>> \in graph.replied
        /\ graph.posts[a].type = "COMMENT"
        /\ RootsOf(graph, b) # {}

\* C31: rendering a comment tree returns after a walk of bounded depth for
\* every comment list, lists in which a comment's id equals its own parent
\* id or the root post id included: walk() never recurses until
\* RecursionError.
C31_TreeWalkBounded ==
    last_call.op = "_format_comment_tree" =>
        RecursionError \notin Range(last_call.lines)

\* The comment ids of the rows whose chain of parent ids reaches the root in
\* at most n steps (a missing parent id stands for the root).
RECURSIVE ReachingIds(_, _, _)
ReachingIds(root_post_id, comments, n) ==
    IF n = 0 THEN {}
    ELSE LET nearer == ReachingIds(root_post_id, comments, n - 1)
         IN {r.comment_id : r \in {x \in Range(comments) :
                \/ x.parent_id \in {root_post_id, NoneId}
                \/ x.parent_id \in nearer}}

\* The lines of a rendering that show the comment c.
LinesOf(lines, c) ==
    {i \in DOMAIN lines : lines[i] # RecursionError /\ lines[i].comment_id = c}

\* C39: _format_comment_tree returns a rendering that shows exactly once
\* each comment of its input whose chain of parent ids reaches the root post
\* and no comment whose chain does not reach it, and the rendering is the
\* single "no comments" placeholder line exactly when no comment is shown.
C39_EachReachableCommentOnce ==
    last_call.op = "_format_comment_tree" =>
        LET comments == last_call.comments
            lines == last_call.lines
            reaching == ReachingIds(last_call.root_post_id, comments, Len(comments))
            ids == {comments[i].comment_id : i \in DOMAIN comments}
        IN /\ RecursionError \notin Range(lines)
           /\ \A c \in reaching : Cardinality(LinesOf(lines, c)) = 1
           /\ \A c \in ids \ reaching : LinesOf(lines, c) = {}
           /\ (lines = <<NoCommentLine>>) <=> (\A c \in ids : LinesOf(lines, c) = {})

\* The ORIGINAL SocialPost nodes of a session, and the node of a post id.
OriginalsOf(g, session_id) ==
    {i \in DOMAIN g.posts :
        g.posts[i].session_id = session_id /\ g.posts[i].type = "ORIGINAL"}

NodeOf(g, session_id, post_id) ==
    CHOOSE i \in DOMAIN g.posts :
        g.posts[i].session_id = session_id /\ g.posts[i].post_id = post_id

\* C32: for every agent id of a session, with or without an Entity node,
\* the timeline of its perception lists the min(5, n) most recent of the
\* session's n ORIGINAL posts, newest first, each with all the comments
\* that reply to it directly or transitively.
C32_TimelineForEveryAgent ==
    \A agent \in Agents :
        LET timeline == get_formatted_perception(graph, SessionId, agent).timeline_posts
            originals == OriginalsOf(graph, SessionId)
            n == Cardinality(originals)
            shown == {NodeOf(graph, SessionId, timeline[k].post_id) : k \in DOMAIN timeline}
        IN /\ Len(timeline) = IF n < 5 THEN n ELSE 5
           /\ \A k \in DOMAIN timeline :
                /\ timeline[k].post_id \in {graph.posts[i].post_id : i \in originals}
                /\ \A m \in DOMAIN timeline : timeline[k].post_id = timeline[m].post_id => k = m
                /\ \A m \in DOMAIN timeline : k < m =>
                    graph.posts[NodeOf(graph, SessionId, timeline[k].post_id)].timestamp
                        >= graph.posts[NodeOf(graph, SessionId, timeline[m].post_id)].timestamp
                /\ {c.comment_id : c \in timeline[k].comments}
                    = {graph.posts[i].post_id : i \in {j \in DOMAIN graph.posts :
                        /\ graph.posts[j].type = "COMMENT"
                        /\ NodeOf(graph, SessionId, timeline[k].post_id) \in RootsOf(graph, j)}}
           /\ \A i \in originals \ shown : \A j \in shown :
                graph.posts[i].timestamp <= graph.posts[j].timestamp

\* The Event nodes of a session that an Entity node of the agent initiated
\* or was targeted by.
EventsOf(g, session_id, agent) ==
    {e \in DOMAIN g.events :
        /\ g.events[e].session_id = session_id
        /\ \E m \in EntityRows(g, session_id, agent) :
            <<m, e>> \in g.initiated \/ <<e, m>> \in g.targeted}

\* C33: the physical events of an agent's perception are exactly the events
\* of the session that the agent initiated or was targeted by, each event
\* once, sorted by timestamp descending and truncated to the first 5.
C33_PhysicalEventsOfAgent ==
    \A agent \in Agents :
        LET rows == get_formatted_perception(graph, SessionId, agent).physical_events
            mine == EventsOf(graph, SessionId, agent)
            n == Cardinality(mine)
            shown == {rows[k].node : k \in DOMAIN rows}
        IN /\ Len(rows) = IF n < 5 THEN n ELSE 5
           /\ shown \subseteq mine
           /\ \A k, m \in DOMAIN rows :
                /\ rows[k].node = rows[m].node => k = m
                /\ k < m => rows[k].timestamp >= rows[m].timestamp
           /\ \A e \in mine \ shown : \A k \in DOMAIN rows :
                graph.events[e].timestamp <= rows[k].timestamp

\* C34: assembling a perception never mutates the store: after
\* get_formatted_perception, for an existing or a missing agent, the nodes,
\* edges and properties of every session are those before the call.
C34_PerceptionIsPureRead ==
    last_call.op = "get_formatted_perception" => graph = last_call.before

\* A perception was assembled for an agent without Entity node in a session
\* that holds posts, after one for an agent that has its node and posts.
C34_Witness ==
    /\ last_call.op = "get_formatted_perception"
    /\ EntityRows(graph, last_call.session_id, last_call.agent) = {}
    /\ PostIds(graph, last_call.session_id) # {}
    /\ last_call.value = EmptyPayload
    /\ \E a \in Agents :
        get_formatted_perception(graph, last_call.session_id, a).timeline_posts # <<>>

\* C35: run_agent_social_cycle returns the outcome of the action executed
\* in the current cycle; when the cycle's decision yields no tool call, so
\* that nothing is executed, it returns an error text and never the result
\* text of an action executed in an earlier cycle of the thread.
C35_ResultOfCurrentCycle ==
    (last_call.op = "run_agent_social_cycle" /\ ~last_call.raised) =>
        LET now == checkpoint[last_call.agent]
        IN IF last_call.executed
           THEN /\ now[Len(now)].type = "tool"
                /\ last_call.value = now[Len(now)].content
           ELSE /\ StartsWithError(last_call.value)
                /\ \A k \in DOMAIN last_call.before :
                    last_call.before[k].type = "tool" =>
                        last_call.value # last_call.before[k].content

\* C36: for every session id and agent id, ids that contain ':' included,
\* the identifiers an action is committed under (those of the agent's
\* cycles and the actor of an event action) are the pair the thread id
\* 'session_id:agent_uuid' was built from.
C36_SplitInvertsBuild ==
    last_call.op = "thread_id" =>
        LET built == [session_id |-> last_call.session_id,
                      agent_uuid |-> last_call.agent]
        IN /\ last_call.first = built
           /\ last_call.second = built
           /\ last_call.actor_id = last_call.agent

\* ------------------------------------ concurrent register_agent calls
\* The profiles a registration can carry.
Profiles == {"brave", "shy", "wise"}

\* SystemMessage(content=render_agent_system_prompt(...)): the template
\* around the stripped profile of the request.
SystemMessage(profile) == [type |-> "system", content |-> <<"template", profile>>]

\* The agent whose thread the requests register.
RegisteredAgent == 1

\* A request thread enters register_agent for the key (SessionId,
\* RegisteredAgent): get_state and the has_system_prompt test; with a
\* prompt the call returns "existing".
RegisterAgent(t) ==
    /\ callers[t].pc = "idle"
    /\ \E profile \in Profiles :
        callers' = [callers EXCEPT ![t] =
            IF has_system_prompt(checkpoint[RegisteredAgent])
            THEN [pc |-> "returned", profile |-> profile, status |-> "existing",
                  base |-> <<>>]
            ELSE [pc |-> "update_state", profile |-> profile, status |-> "",
                  base |-> <<>>]]
    /\ UNCHANGED <<calls, like_returns, last_call, posts_lock>>
    /\ UNCHANGED <<graphVars, worldVars, schedVars, eventVars>>

\* anima_app.update_state: the thread's newest checkpoint is loaded.
UpdateStateRead(t) ==
    /\ callers[t].pc = "update_state"
    /\ callers' = [callers EXCEPT ![t].pc = "put",
                                  ![t].base = checkpoint[RegisteredAgent]]
    /\ UNCHANGED <<calls, like_returns, last_call, posts_lock>>
    /\ UNCHANGED <<graphVars, worldVars, schedVars, eventVars>>

\* anima_app.update_state: add_messages appends the SystemMessage to the
\* messages loaded and the checkpoint is saved; the call returns "created".
UpdateStatePut(t) ==
    /\ callers[t].pc = "put"
    /\ checkpoint' = [checkpoint EXCEPT ![RegisteredAgent] =
                        Append(callers[t].base, SystemMessage(callers[t].profile))]
    /\ callers' = [callers EXCEPT ![t].pc = "returned", ![t].status = "created"]
    /\ UNCHANGED <<graph, clock, history>>
    /\ UNCHANGED <<calls, like_returns, last_call, posts_lock>>
    /\ UNCHANGED <<worldVars, schedVars, eventVars>>

InitRegister ==
    /\ graph = EmptyGraph
    /\ clock = 1
    /\ checkpoint = [a \in Agents |-> <<>>]
    /\ history = <<>>
    /\ IdleWorld /\ IdleSched /\ IdleEvent
    /\ calls = 0
    /\ like_returns = <<>>
    /\ last_call = NoCall
    /\ posts_lock = FALSE
    /\ callers = [t \in Callers |->
                    [pc |-> "idle", profile |-> "", status |-> "", base |-> <<>>]]

NextRegister ==
    \/ \E t \in Callers : RegisterAgent(t)
    \/ \E t \in Callers : UpdateStateRead(t)
    \/ \E t \in Callers : UpdateStatePut(t)

SpecRegister == InitRegister /\ [][NextRegister]_vars

\* The system prompts a thread holds.
SystemPrompts(messages) == SelectSeq(messages, LAMBDA m : m.type = "system")

\* C37: registration is idempotent per (session_id, entity_uuid): after any
\* sequence or interleaving of register_agent calls for one key the thread
\* holds exactly one system prompt, exactly one call has reported "created"
\* and every other "existing", and the stored prompt is that of the call
\* that created it, whatever profile a later registration carries.
C37_RegistrationIdempotent ==
    LET returned == {t \in Callers : callers[t].pc = "returned"}
        created == {t \in returned : callers[t].status = "created"}
        prompts == SystemPrompts(checkpoint[RegisteredAgent])
    IN /\ Len(prompts) <= 1
       /\ Cardinality(created) <= 1
       /\ \A t \in returned \ created : callers[t].status = "existing"
       /\ returned # {} =>
            /\ Cardinality(created) = 1
            /\ Len(prompts) = 1
            /\ \A t \in created : prompts[1] = SystemMessage(callers[t].profile)

\* C38: in run_event_workflow each target's inferred action is committed
\* exactly once per event, a thread id listed more than once included: when
\* the workflow returns there are as many apply_action calls as decisions
\* that returned, and the call made for a position of target_thread_ids
\* carries the action the decision of that position returned.
C38_EachDecisionCommittedOnce ==
    epc = "done" =>
        LET decided == {n \in DOMAIN ipc : ipc[n].pc = "done"}
        IN /\ Cardinality(Applied) = Cardinality(decided)
           /\ \A n \in decided :
                LET made == {k \in Applied : elog[k].idx = n}
                IN /\ Cardinality(made) = 1
                   /\ \A k \in made : elog[k].action = ipc[n].write.action

====
